---- MODULE Spec2Model ----
(***************************************************************************)
(* The agent-task engine of roka (backend/app/services/task_runner.py):    *)
(* several engine processes share the agent_tasks table of one PostgreSQL  *)
(* store.  Every statement the engine issues goes through pool.execute /   *)
(* pool.fetchrow / pool.fetchval and is therefore its own autocommit       *)
(* transaction at READ COMMITTED.                                          *)
(*                                                                         *)
(* Time is counted in seconds.  A NULL column is NULL (timestamps) or the  *)
(* string "null" (text / json columns).                                    *)
(***************************************************************************)
EXTENDS Integers, Sequences, FiniteSets, TLC

\* ------------------------------------------------------------------ bounds
NTasks == 2
NProcs == 2
MaxTicks == 2
MaxFaults == 1
MaxStreak == 8
MaxNotifs == 2
NCreds == 2
NOwners == 2
MaxCalls == 3
MaxCycles == 25
NCalls == 3
MaxVersions == 2
MaxInvals == 2
MaxMonoTicks == 2

\* --------------------------------------------------------- program constants
STALE_TASK_TIMEOUT_MINUTES == 10
HEARTBEAT_SECONDS == 30
TRACE_LIMIT == 2000
BRIDGE_RECONNECT_BASE == 1
BRIDGE_RECONNECT_MAX == 60
STALE_CHECK_CYCLES == 12
LLM_CACHE_TTL == 60
NULL == 0 - 1
NoTask == 0

Tasks == 1 .. NTasks
Procs == 1 .. NProcs

WORKFLOW_HANDLERS == {"summarize", "triage", "agent"}
\* the workflow names a producer is drawn from: a registered one and an unknown one
WorkflowNames == {"summarize", "unknown_flow"}

TimeoutError == "Worker timeout: task exceeded heartbeat deadline"

\* faulty variant: the error text does not name the workflow
UnknownErrorAnonymous(w) == "Unknown workflow"

\* f"Unknown workflow: {workflow}"
UnknownError(w) == "Unknown workflow: " \o w

\* ------------------------------------------- handler results and exceptions
\* What the try block of _claim_and_run_one ends with is a value of one shape:
\*   kind "none"  : the handler returned None
\*   kind "dict"  : the handler returned a dict; name / text are the key and the
\*                  value of its one entry (name "": the dict is empty)
\*   kind "raise" : an exception e; name is type(e).__name__, text is str(e) and
\*                  trace is len(traceback.format_exc())
\*   kind "unset" : no handler has returned
NoResult == [kind |-> "unset", name |-> "", text |-> "", trace |-> 0]
PyNone == [kind |-> "none", name |-> "", text |-> "", trace |-> 0]
Dict(k, v) == [kind |-> "dict", name |-> k, text |-> v, trace |-> 0]
EmptyDict == Dict("", "")
Raised(type, msg, n) == [kind |-> "raise", name |-> type, text |-> msg, trace |-> n]

\* the exception pool.execute / pool.fetchrow raises when the store fails
StoreError == Raised("ConnectionDoesNotExistError", "connection was closed", 1500)

\* the results a handler is drawn from: nothing, an empty dict, an output, an
\* error result, an error result whose error field is empty, and exceptions
\* whose traceback is shorter and longer than the limit
HandlerResults ==
    {PyNone, EmptyDict, Dict("summary", "text"), Dict("error", "No node_id provided"),
     Dict("error", ""), Raised("RuntimeError", "boom", 1999),
     Raised("RuntimeError", "boom", 2001)}

\* one result of each way _claim_and_run_one goes on after the handler
CoarseResults ==
    {Dict("summary", "text"), Dict("error", "No node_id provided"), StoreError}

\* bool(result): None and the empty dict are false
Truthy(r) == r.kind = "dict" /\ r.name # ""

\* result.get("error"): the value of the entry, None when there is no such entry
Get(r, k) ==
    IF r.kind = "dict" /\ r.name = k /\ k # ""
    THEN [some |-> TRUE, text |-> r.text]
    ELSE [some |-> FALSE, text |-> ""]

\* faulty variant: the error entry is tested for presence, not for truth
ValuePresent(g) == g.some

\* bool(result.get("error")): None and the empty string are false
TruthyValue(g) == g.some /\ g.text # ""

\* if result and result.get("error")
HasError(r) == Truthy(r) /\ TruthyValue(Get(r, "error"))

\* faulty variant: the result is serialised without replacing None
ResultAsIs(r) == r

\* result or {}
ResultOrEmpty(r) == IF Truthy(r) THEN r ELSE EmptyDict

\* json.dumps of a result
Dumps(r) ==
    IF r.kind = "none" THEN "null"
    ELSE IF r.name = "" THEN "{}"
    ELSE "{\"" \o r.name \o "\": \"" \o r.text \o "\"}"

\* faulty variant: the traceback is written whole
WholeTrace(n) == n

\* tb[:2000], as the number of characters kept
Truncate(n) == IF n > TRACE_LIMIT THEN TRACE_LIMIT ELSE n

\* the text of a traceback of n characters
Traceback(n) == "Traceback (" \o ToString(n) \o " characters)"

\* f"{type(e).__name__}: {str(e)}\n{tb[:2000]}"
ExceptionError(e) ==
    e.name \o ": " \o e.text \o "\n" \o Traceback(Truncate(e.trace))

\* where _claim_and_run_one goes with what the try block gave so far
Dispatch(r) ==
    IF r.kind = "raise" THEN "write_exc"
    ELSE IF HasError(r) THEN "write_err"
    ELSE "write_ok"

VARIABLES
    tasks,      \* the agent_tasks table: task id -> committed row
    now,        \* the store's clock, now()
    pc,         \* each engine process's position in poll_agent_tasks / _claim_and_run_one
    cur,        \* each process's row / task_id local (NoTask: none)
    snap,       \* the pending rows in the snapshot of a claim statement in flight
    hb_next,    \* when the process's heartbeat_loop wakes next (NULL: no loop)
    ticks,      \* how many times the clock has advanced
    faults,     \* store errors injected so far
    claimLog,   \* history: the ids of the rows the claim statement returned, in commit order
    claimers,   \* history: the processes that ever issued a claim statement
    result,     \* each process's result local, or the exception its try block raised
    hb_exc,     \* the process's heartbeat_task ended with an exception
    listener,   \* each process's _listen_loop: "listening" or "lost"
    notified    \* each process's notify_event is set

\* centrifugo_bridge (app/services/centrifugo_bridge.py) of the engine process
VARIABLES
    api_key,    \* settings.centrifugo_api_key is set
    bridge,     \* position of centrifugo_bridge
    backoff,    \* its backoff local, in seconds
    conn,       \* its conn local: "none", or the state of the connection it holds
    streak,     \* history: failed subscription attempts since the last success
    notifs,     \* history: notifications handed to _on_notify so far
    pending,    \* the _publish tasks created and not yet finished
    attempts    \* history: POST requests sent to the relay, per notification

bridgeVars == <<api_key, bridge, backoff, conn, streak, notifs, pending, attempts>>

\* the credential vault (app/services/vault.py) and its callers
VARIABLES
    vault_key,     \* settings.roka_vault_key of the running process
    fernet,        \* the module global _fernet: "none", or the key it was built with
    credentials,   \* the credentials table: credential id -> committed row
    plain,         \* history: the configuration last encrypted into each row
    ret,           \* what the last vault call returned or raised, and to whom
    calls          \* history: vault calls and restarts so far

vaultVars == <<vault_key, fernet, credentials, plain, ret, calls>>

\* the lifespan of the application (app/main.py)
VARIABLES
    lifespan,      \* position of lifespan: "serving" until shutdown begins
    pool_open,     \* the connection pool has not been closed
    cancel_thrown  \* the CancelledError of task.cancel() has reached the poller

lifeVars == <<lifespan, pool_open, cancel_thrown>>

\* the cycle counting of poll_agent_tasks
VARIABLES
    stale_check_counter,   \* each process's stale_check_counter local
    cycles,                \* history: the drains each process has ended
    heard                  \* history: the tasks whose notification reached each process

cycleVars == <<stale_check_counter, cycles, heard>>

\* the LLM configuration cache of a process (llm_settings.py)
VARIABLES
    llm_store,    \* the version of the LLM configuration the store holds
    cache,        \* _cache: the configuration kept, or none
    cache_ts,     \* _cache_ts
    cache_lock,   \* the call that holds _cache_lock, or none
    mono,         \* time.monotonic()
    mono_ticks,   \* the steps the monotonic clock has made
    invals,       \* history: the invalidate_cache() calls that have returned
    llm_call      \* each get_llm_config call: position, now, what it read and returned

cacheVars == <<llm_store, cache, cache_ts, cache_lock, mono, mono_ticks, invals, llm_call>>

\* the state of the components an engine step does not touch
nonEngine == <<bridgeVars, vaultVars, lifeVars, cycleVars, cacheVars>>

\* the get_llm_config calls of the process
Calls == 1 .. NCalls
NoCall == 0

\* a configuration as the cache holds it: the version of the store it was read
\* from, and (history) the number of invalidations that had returned when the
\* store was read
Config(v, e) == [version |-> v, epoch |-> e]
NoConfig == Config(NULL, NULL)

\* a call that has not started: since is (history) the number of invalidations
\* that had returned when the call started
NewCall == [pc |-> "idle", now |-> 0, got |-> NoConfig, ret |-> NoConfig, since |-> 0]

\* the state of the task engine
engineVars == <<tasks, now, ticks, pc, cur, snap, hb_next, faults, claimLog, claimers,
                result, hb_exc, listener, notified, cycleVars>>

\* the state of the components a bridge step does not touch
outsideBridge == <<engineVars, vaultVars, lifeVars, cacheVars>>

\* the state of the components a vault call does not touch
outsideVault == <<engineVars, bridgeVars, lifeVars, cacheVars>>

vars == <<tasks, now, ticks, pc, cur, snap, hb_next, faults, claimLog, claimers,
          result, hb_exc, listener, notified, bridgeVars, vaultVars, lifeVars,
          cycleVars, cacheVars>>

\* ------------------------------------------------------------------- rows
AbsentRow ==
    [status |-> "absent", workflow |-> "null", created_at |-> NULL,
     started_at |-> NULL, heartbeat_at |-> NULL, completed_at |-> NULL,
     updated_at |-> NULL, error |-> "null", output |-> "null"]

\* INSERT INTO agent_tasks (owner_id, workflow, ..., status) VALUES (.., 'pending'):
\* created_at and updated_at default to now()
InsertRow(w, clock) ==
    [AbsentRow EXCEPT !.status = "pending", !.workflow = w,
                      !.created_at = clock, !.updated_at = clock]

\* SET status = 'running', started_at = now(), heartbeat_at = now(), updated_at = now()
ClaimRow(r, clock) ==
    [r EXCEPT !.status = "running", !.started_at = clock,
              !.heartbeat_at = clock, !.updated_at = clock]

\* UPDATE agent_tasks SET status = 'failed', error = $2, completed_at = now(),
\* updated_at = now() WHERE id = $1          (no condition on status)
FailRow(r, err, clock) ==
    IF r.status = "absent" THEN r
    ELSE [r EXCEPT !.status = "failed", !.error = err,
                   !.completed_at = clock, !.updated_at = clock]

\* UPDATE agent_tasks SET status = 'completed', output = $2::jsonb,
\* completed_at = now(), updated_at = now() WHERE id = $1   (no condition on status)
CompleteRow(r, out, clock) ==
    IF r.status = "absent" THEN r
    ELSE [r EXCEPT !.status = "completed", !.output = out,
                   !.completed_at = clock, !.updated_at = clock]

\* UPDATE agent_tasks SET heartbeat_at = now() WHERE id = $1  (no condition on status)
HeartbeatRow(r, clock) ==
    IF r.status = "absent" THEN r ELSE [r EXCEPT !.heartbeat_at = clock]

Terminal(s) == s \in {"completed", "failed", "cancelled"}


\* ------------------------------------------------- _reclaim_stale_tasks SQL
\* WHERE status = 'running' AND heartbeat_at < now() - interval '10 minutes'
StaleRow(r, clock) ==
    /\ r.status = "running"
    /\ r.heartbeat_at # NULL
    /\ r.heartbeat_at < clock - STALE_TASK_TIMEOUT_MINUTES * 60

\* SET status = 'failed', error = 'Worker timeout: ...', completed_at = now(),
\* updated_at = now()
ReclaimRow(r, clock) ==
    [r EXCEPT !.status = "failed", !.error = TimeoutError,
              !.completed_at = clock, !.updated_at = clock]

\* the UPDATE ... SET ... WHERE ... part of the statement, as one bulk write
ReclaimUpdate(ts, clock) ==
    [t \in Tasks |-> IF StaleRow(ts[t], clock) THEN ReclaimRow(ts[t], clock) ELSE ts[t]]

\* RETURNING count(*): the RETURNING list of the statement holds an aggregate.
\* PostgreSQL refuses such a statement when it analyses it ("aggregate functions
\* are not allowed in RETURNING", SQLSTATE 42803), before any row is touched.
ReclaimReturningAggregate == TRUE

\* faulty variant: the statement is accepted and its WHERE clause is status = 'running'
\* alone (the heartbeat condition is missing)
ReclaimAllRunning(ts, clock) ==
    [t \in Tasks |->
        IF ts[t].status = "running" THEN ReclaimRow(ts[t], clock) ELSE ts[t]]

\* faulty variant: the statement is accepted and its WHERE clause misses the status
\* condition: every row with an old heartbeat_at, or none, is rewritten
ReclaimAnyStatus(ts, clock) ==
    [t \in Tasks |->
        IF ts[t].status # "absent" /\ ~(ts[t].status = "running" /\ ~StaleRow(ts[t], clock))
        THEN ReclaimRow(ts[t], clock) ELSE ts[t]]

\* faulty variant: the statement is accepted and compares heartbeat_at with now()
\* (the interval is missing)
ReclaimNoInterval(ts, clock) ==
    [t \in Tasks |->
        IF ts[t].status = "running" /\ ts[t].heartbeat_at < clock
        THEN ReclaimRow(ts[t], clock) ELSE ts[t]]

\* What pool.fetchval(...) of the reclaim statement leaves in the table: the
\* statement is refused, fetchval raises, and the except clause of
\* _reclaim_stale_tasks logs "Stale task reclaim error" and returns.
ReclaimResult(ts, clock) ==
    IF ReclaimReturningAggregate THEN ts ELSE ReclaimUpdate(ts, clock)

\* ------------------------------------------------------ the claim statement
\* a row is locked from the moment a claim's sub-select took it (FOR UPDATE)
\* until that claim's transaction commits
Locked(t) == \E q \in Procs : pc[q] = "claim_locked" /\ cur[q] = t

\* faulty variant: a plain SELECT of the pending rows of the snapshot, neither locking
\* them nor looking at their latest version (SELECT, then a separate UPDATE)
EligibleNaive(p) == snap[p]

\* faulty variant: the sub-select ignores the locks other claims hold
EligibleIgnoringLocks(p) == {t \in snap[p] : tasks[t].status = "pending"}

\* SELECT id FROM agent_tasks WHERE status = 'pending' ... FOR UPDATE SKIP LOCKED:
\* of the rows pending in the statement's snapshot, those that are not locked by
\* another claim in flight and are still pending in their latest committed
\* version (READ COMMITTED re-checks the WHERE clause on the row it locks)
Eligible(p) ==
    {t \in snap[p] : ~Locked(t) /\ tasks[t].status = "pending"}

\* faulty variant: ORDER BY created_at DESC
Newest(S) ==
    {t \in S : \A u \in S : tasks[t].created_at >= tasks[u].created_at}

\* ORDER BY created_at ASC LIMIT 1: a row of least created_at; the statement names
\* no second sort key, so among equal created_at the store may return any
Oldest(S) ==
    {t \in S : \A u \in S : tasks[t].created_at <= tasks[u].created_at}

\* ------------------------------------------------------------ store errors
\* A write (pool.execute of an UPDATE ... WHERE id = $1) ends in one of
\* three ways: it commits and returns; it raises and nothing was written; it
\* raises although the store committed it (the connection is lost after the
\* commit and before the reply).
StoreOutcomes == {"done", "lost", "late"}

Faulty(f) == f # "done"

\* the row after a write of outcome f
Written(f, old, new) == IF f = "lost" THEN old ELSE new

\* ------------------------------------------------------- centrifugo_bridge
\* the bridge task before its first step, with or without a relay API key
BridgeInit(key) ==
    /\ api_key = key
    /\ bridge = "start"
    /\ backoff = BRIDGE_RECONNECT_BASE
    /\ conn = "none"
    /\ streak = 0
    /\ notifs = 0
    /\ pending = {}
    /\ attempts = [n \in 1 .. MaxNotifs |-> <<>>]

\* faulty variant: the delay doubles without a cap
BackoffUncapped(b) == b * 2

\* min(backoff * 2, BRIDGE_RECONNECT_MAX)
BackoffNext(b) ==
    IF b * 2 < BRIDGE_RECONNECT_MAX THEN b * 2 ELSE BRIDGE_RECONNECT_MAX

\* what the relay answers to a POST /api/publish: a 200, another status, or the
\* request raises
RelayOutcomes == {"200", "503", "exception"}

\* _http_client is set: between the start of the loop and the outer finally
HttpClient == bridge \in {"acquire", "subscribed", "release", "sleep"}

\* ------------------------------------------------------------------- vault
Creds == 1 .. NCreds
Owners == 1 .. NOwners
NoOwner == 0
NoCred == 0

\* the values ROKA_VAULT_KEY is drawn from: unset, blank, a key, and another
\* key with white space around it
VaultKeys == {"", "  ", "K1", " K2 "}

\* key.strip()
Strip(k) == IF k = "  " THEN "" ELSE IF k = " K2 " THEN "K2" ELSE k

\* Python values of a configuration map
VStr(s) == [t |-> "str", v |-> s]
VInt(s) == [t |-> "int", v |-> s]
VBool(s) == [t |-> "bool", v |-> s]
VNone == [t |-> "none", v |-> "None"]

\* the keys of a configuration map, in the order maps are built with
KeyOrder == <<"provider", "model", "api_key", "api_base", "port", "verify">>

\* the configuration maps a caller is drawn from: an LLM configuration, a map
\* with a value of every JSON type, and the empty map
CfgLlm ==
    ("provider" :> VStr("openai")) @@ ("model" :> VStr("gpt-4o")) @@
    ("api_key" :> VStr("sk-1"))
CfgHttp ==
    ("api_key" :> VStr("sk-2")) @@ ("port" :> VInt("443")) @@
    ("verify" :> VBool("True")) @@ ("api_base" :> VNone)
CfgEmpty == [k \in {} |-> VNone]
Configs == {CfgLlm, CfgHttp, CfgEmpty}

\* json.dumps of one value: a JSON string, number or literal
DumpValue(v) ==
    CASE v.t = "str" -> [j |-> "string", s |-> v.v]
      [] v.t = "int" -> [j |-> "number", s |-> v.v]
      [] v.t = "bool" -> [j |-> "literal", s |-> IF v.v = "True" THEN "true" ELSE "false"]
      [] v.t = "none" -> [j |-> "literal", s |-> "null"]

\* json.loads of one JSON value
LoadValue(j) ==
    CASE j.j = "string" -> VStr(j.s)
      [] j.j = "number" -> VInt(j.s)
      [] j.j = "literal" /\ j.s = "null" -> VNone
      [] j.j = "literal" /\ j.s = "true" -> VBool("True")
      [] j.j = "literal" /\ j.s = "false" -> VBool("False")

\* the members of KeyOrder from position i on that are keys of cfg, dumped
RECURSIVE DumpMembers(_, _)
DumpMembers(cfg, i) ==
    IF i > Len(KeyOrder) THEN <<>>
    ELSE IF KeyOrder[i] \in DOMAIN cfg
         THEN <<[k |-> KeyOrder[i], j |-> DumpValue(cfg[KeyOrder[i]])]>>
              \o DumpMembers(cfg, i + 1)
         ELSE DumpMembers(cfg, i + 1)

\* json.dumps(data).encode("utf-8"): the members of the JSON object
JsonDumps(cfg) == DumpMembers(cfg, 1)

\* json.loads(decrypted.decode("utf-8"))
JsonLoads(text) ==
    [k \in {text[i].k : i \in 1 .. Len(text)} |->
        LoadValue(text[CHOOSE i \in 1 .. Len(text) : text[i].k = k].j)]

\* Fernet(key).encrypt(payload): a token only the same key opens
FernetEncrypt(key, payload) == [key |-> key, data |-> payload]

\* faulty variant: the token opens under any key
FernetDecryptAnyKey(key, token) == [ok |-> TRUE, data |-> token.data]

\* Fernet(key).decrypt(token): the payload, or InvalidToken
FernetDecrypt(key, token) ==
    IF token.key = key THEN [ok |-> TRUE, data |-> token.data]
    ELSE [ok |-> FALSE, data |-> <<>>]

KeyError == "ROKA_VAULT_KEY not set. Cannot encrypt/decrypt credentials."
DecryptError == "Decryption failed. Check ROKA_VAULT_KEY."
NotFoundError == "Credential not found"

\* faulty variant: the key is tested for emptiness before it is stripped
GetFernetUnstripped ==
    IF fernet # "none" THEN fernet
    ELSE IF vault_key = "" THEN "none"
    ELSE vault_key

\* _get_fernet(): the cached instance, or one built from the stripped key; no
\* instance (RuntimeError) when the stripped key is empty
GetFernet ==
    IF fernet # "none" THEN fernet
    ELSE IF Strip(vault_key) = "" THEN "none"
    ELSE Strip(vault_key)

\* encrypt(data) with the instance of key k
Encrypt(k, cfg) == FernetEncrypt(k, JsonDumps(cfg))

\* decrypt(encrypted) with the instance of key k: the map, or ValueError
Decrypt(k, token) ==
    IF FernetDecrypt(k, token).ok
    THEN [ok |-> TRUE, config |-> JsonLoads(FernetDecrypt(k, token).data)]
    ELSE [ok |-> FALSE, config |-> CfgEmpty]

NoToken == [key |-> "none", data |-> <<>>]

AbsentCred ==
    [present |-> FALSE, owner_id |-> NoOwner, name |-> "", service |-> "",
     is_active |-> FALSE, config_encrypted |-> NoToken]

\* the outcome of a vault call: op and the caller it was made for, the id it
\* named, then kind "raise" with the exception's type and text, kind "row"
\* / "rows" with the ids of the rows returned (and the decrypted map of a
\* single row), kind "empty" for {}, kind "bool" for delete's result, kind
\* "llm" for an LLMConfig with the place its fields came from
Ret(op, caller, cid, kind, name, text, ids, cfg) ==
    [op |-> op, caller |-> caller, cid |-> cid, kind |-> kind, name |-> name,
     text |-> text, ids |-> ids, config |-> cfg]
NoRet == Ret("none", NoOwner, NoCred, "none", "", "", {}, CfgEmpty)
RetRaise(op, caller, cid, name, text) ==
    Ret(op, caller, cid, "raise", name, text, {}, CfgEmpty)

\* the process starts with vault key k over an empty credentials table
VaultInit(k) ==
    /\ vault_key = k
    /\ fernet = "none"
    /\ credentials = [c \in Creds |-> AbsentCred]
    /\ plain = [c \in Creds |-> CfgEmpty]
    /\ ret = NoRet
    /\ calls = 0

\* ------------------------------------------------------------------- Init
\* the store is empty and every engine process is at the top of its poll loop
EngineInit ==
    /\ tasks = [t \in Tasks |-> AbsentRow]
    /\ now = 0
    /\ ticks = 0
    /\ pc = [p \in Procs |-> "wait"]
    /\ cur = [p \in Procs |-> NoTask]
    /\ snap = [p \in Procs |-> {}]
    /\ hb_next = [p \in Procs |-> NULL]
    /\ faults = 0
    /\ claimLog = <<>>
    /\ claimers = {}
    /\ result = [p \in Procs |-> NoResult]
    /\ hb_exc = [p \in Procs |-> FALSE]
    /\ listener = [p \in Procs |-> "listening"]
    /\ notified = [p \in Procs |-> FALSE]
    /\ stale_check_counter = [p \in Procs |-> 0]
    /\ cycles = [p \in Procs |-> 0]
    /\ heard = [p \in Procs |-> {}]

\* the application has started: both background tasks exist, the pool is open
\* the module globals of llm_settings after import, no call made yet
CacheInit ==
    /\ llm_store = 0
    /\ cache = NoConfig
    /\ cache_ts = 0
    /\ cache_lock = NoCall
    /\ mono = LLM_CACHE_TTL
    /\ mono_ticks = 0
    /\ invals = 0
    /\ llm_call = [c \in Calls |-> NewCall]

LifeInit ==
    /\ lifespan = "serving"
    /\ pool_open = TRUE
    /\ cancel_thrown = FALSE

Init ==
    /\ EngineInit
    /\ BridgeInit(FALSE)
    /\ VaultInit("K1")
    /\ LifeInit
    /\ CacheInit

\* ------------------------------------------------------------ environment
\* a producer inserts a pending task (webhook route, front-end, smoke test)
Insert(t, w) ==
    /\ tasks[t].status = "absent"
    /\ tasks' = [tasks EXCEPT ![t] = InsertRow(w, now)]
    /\ UNCHANGED <<now, ticks, pc, cur, snap, hb_next, faults, claimLog, claimers,
                 result, hb_exc, listener, notified, nonEngine>>

\* a heartbeat_loop that is alive wakes when its sleep(30) is over: the clock does
\* not pass that moment before the loop has written
HeartbeatDue(p) == pc[p] = "handler" /\ hb_next[p] # NULL

Tick(d) ==
    /\ ticks < MaxTicks
    /\ \A p \in Procs : HeartbeatDue(p) => now + d <= hb_next[p]
    /\ now' = now + d
    /\ ticks' = ticks + 1
    /\ UNCHANGED <<tasks, pc, cur, snap, hb_next, faults, claimLog, claimers,
                 result, hb_exc, listener, notified, nonEngine>>

\* the process executing a handler dies (kill -9, machine loss): it writes
\* nothing more
Crash(p) ==
    /\ pc[p] = "handler"
    /\ pc' = [pc EXCEPT ![p] = "crashed"]
    /\ hb_next' = [hb_next EXCEPT ![p] = NULL]
    /\ UNCHANGED <<tasks, now, ticks, cur, snap, faults, claimLog, claimers,
                 result, hb_exc, listener, notified, nonEngine>>

\* ------------------------------------------------------ poll_agent_tasks
\* faulty variant: notify_event.wait() without a timeout
WakeOnNotify(p) ==
    /\ pc[p] = "wait"
    /\ notified[p]
    /\ pc' = [pc EXCEPT ![p] = "drain"]
    /\ notified' = [notified EXCEPT ![p] = FALSE]
    /\ UNCHANGED <<tasks, now, ticks, cur, snap, hb_next, faults, claimLog, claimers,
                 result, hb_exc, listener, nonEngine>>

\* wait_for(notify_event.wait(), timeout) returns, because the event is set or
\* because the timeout is over (the timer is not measured against the store's
\* clock: it may be over at any moment); then notify_event.clear()
Wake(p) ==
    /\ pc[p] = "wait"
    /\ pc' = [pc EXCEPT ![p] = "drain"]
    /\ notified' = [notified EXCEPT ![p] = FALSE]
    /\ UNCHANGED <<tasks, now, ticks, cur, snap, hb_next, faults, claimLog, claimers,
                 result, hb_exc, listener, nonEngine>>

\* _listen_loop's callback runs for a NOTIFY new_task: notify_event.set()
Notify(p) ==
    /\ listener[p] = "listening"
    /\ ~notified[p]
    /\ \E t \in Tasks : tasks[t].status = "pending"
    /\ notified' = [notified EXCEPT ![p] = TRUE]
    /\ UNCHANGED <<tasks, now, ticks, pc, cur, snap, hb_next, faults, claimLog,
                 claimers, result, hb_exc, listener, nonEngine>>

\* _listen_loop ends: pool.acquire or add_listener raises, or the connection
\* drops and its listeners go with it; nothing starts _listen_loop again
ListenerFail(p) ==
    /\ listener[p] = "listening"
    /\ listener' = [listener EXCEPT ![p] = "lost"]
    /\ UNCHANGED <<tasks, now, ticks, pc, cur, snap, hb_next, faults, claimLog,
                 claimers, result, hb_exc, notified, nonEngine>>

\* _claim_and_run_one is called: the claim statement starts and takes its snapshot
ClaimBegin(p) ==
    /\ pc[p] = "drain"
    /\ pc' = [pc EXCEPT ![p] = "claim_scan"]
    /\ snap' = [snap EXCEPT ![p] = {t \in Tasks : tasks[t].status = "pending"}]
    /\ claimers' = claimers \cup {p}
    /\ UNCHANGED <<tasks, now, ticks, cur, hb_next, faults, claimLog,
                 result, hb_exc, listener, notified, nonEngine>>

\* pool.fetchrow of the claim statement raises before the statement ran: the
\* exception leaves _claim_and_run_one and the while loop of poll_agent_tasks,
\* whose only except clause is for CancelledError
ClaimFail(p) ==
    /\ pc[p] = "claim_scan"
    /\ faults < MaxFaults
    /\ faults' = faults + 1
    /\ pc' = [pc EXCEPT ![p] = "dead"]
    /\ snap' = [snap EXCEPT ![p] = {}]
    /\ UNCHANGED <<tasks, now, ticks, cur, hb_next, claimLog, claimers,
                 result, hb_exc, listener, notified, nonEngine>>

\* the drain loop ended (a claim returned False): stale_check_counter is
\* incremented and, when it reached 12, reset and _reclaim_stale_tasks called;
\* otherwise the loop waits again
AfterDrain == {"wait", "reclaim"}

\* faulty variant: notify_event.clear() after the drain loop instead of before it
ClaimSelectClearing(p) ==
    /\ pc[p] = "claim_scan"
    /\ \/ /\ Eligible(p) = {}
          /\ \E n \in AfterDrain : pc' = [pc EXCEPT ![p] = n]
          /\ cur' = [cur EXCEPT ![p] = NoTask]
          /\ notified' = [notified EXCEPT ![p] = FALSE]
       \/ /\ \E t \in Oldest(Eligible(p)) : cur' = [cur EXCEPT ![p] = t]
          /\ pc' = [pc EXCEPT ![p] = "claim_locked"]
          /\ UNCHANGED notified
    /\ snap' = [snap EXCEPT ![p] = {}]
    /\ UNCHANGED <<tasks, now, ticks, hb_next, faults, claimLog, claimers,
                 result, hb_exc, listener, nonEngine>>

\* the sub-select runs: it locks the row it returns, or returns no row, in which
\* case the UPDATE matches nothing, fetchrow gives None and the call returns False
ClaimSelect(p) ==
    /\ pc[p] = "claim_scan"
    /\ \/ /\ Eligible(p) = {}
          /\ \E n \in AfterDrain : pc' = [pc EXCEPT ![p] = n]
          /\ cur' = [cur EXCEPT ![p] = NoTask]
       \/ /\ \E t \in Oldest(Eligible(p)) : cur' = [cur EXCEPT ![p] = t]
          /\ pc' = [pc EXCEPT ![p] = "claim_locked"]
    /\ snap' = [snap EXCEPT ![p] = {}]
    /\ UNCHANGED <<tasks, now, ticks, hb_next, faults, claimLog, claimers,
                 result, hb_exc, listener, notified, nonEngine>>

\* faulty variant: the handler is started as a task of its own and not awaited,
\* so the drain loop claims again while it runs
ClaimCommitDetached(p) ==
    /\ pc[p] = "claim_locked"
    /\ tasks' = [tasks EXCEPT ![cur[p]] = ClaimRow(tasks[cur[p]], now)]
    /\ claimLog' = Append(claimLog, cur[p])
    /\ pc' = [pc EXCEPT ![p] = "drain"]
    /\ cur' = [cur EXCEPT ![p] = NoTask]
    /\ UNCHANGED <<now, ticks, snap, hb_next, faults, claimers,
                 result, hb_exc, listener, notified, nonEngine>>

\* the UPDATE of the locked row commits and RETURNING hands the row back; the
\* code then looks the handler up and either goes to the "unknown workflow"
\* write or starts heartbeat_loop and awaits the handler
ClaimCommit(p) ==
    /\ pc[p] = "claim_locked"
    /\ tasks' = [tasks EXCEPT ![cur[p]] = ClaimRow(tasks[cur[p]], now)]
    /\ claimLog' = Append(claimLog, cur[p])
    /\ IF tasks[cur[p]].workflow \in WORKFLOW_HANDLERS
       THEN /\ pc' = [pc EXCEPT ![p] = "handler"]
            /\ hb_next' = [hb_next EXCEPT ![p] = now + HEARTBEAT_SECONDS]
       ELSE /\ pc' = [pc EXCEPT ![p] = "write_unknown"]
            /\ UNCHANGED hb_next
    /\ UNCHANGED <<now, ticks, cur, snap, faults, claimers,
                 result, hb_exc, listener, notified, nonEngine>>

\* heartbeat_loop: sleep(30) is over, UPDATE ... SET heartbeat_at = now()
Heartbeat(p) ==
    /\ HeartbeatDue(p)
    /\ now >= hb_next[p]
    /\ tasks' = [tasks EXCEPT ![cur[p]] = HeartbeatRow(tasks[cur[p]], now)]
    /\ hb_next' = [hb_next EXCEPT ![p] = now + HEARTBEAT_SECONDS]
    /\ UNCHANGED <<now, ticks, pc, cur, snap, faults, claimLog, claimers,
                 result, hb_exc, listener, notified, nonEngine>>

\* heartbeat_loop: pool.execute raises (f tells whether the store had committed
\* the write); nothing in heartbeat_loop catches it, so the loop ends and the
\* exception stays in heartbeat_task
HeartbeatFail(p, f) ==
    /\ HeartbeatDue(p)
    /\ now >= hb_next[p]
    /\ Faulty(f)
    /\ faults < MaxFaults
    /\ faults' = faults + 1
    /\ tasks' = [tasks EXCEPT ![cur[p]] =
                    Written(f, tasks[cur[p]], HeartbeatRow(tasks[cur[p]], now))]
    /\ hb_next' = [hb_next EXCEPT ![p] = NULL]
    /\ hb_exc' = [hb_exc EXCEPT ![p] = TRUE]
    /\ UNCHANGED <<now, ticks, pc, cur, snap, claimLog, claimers,
                 result, listener, notified, nonEngine>>

\* what the inner try / finally leaves: the finally clause cancels heartbeat_task
\* and awaits it; if heartbeat_task had ended with an exception, the await raises
\* that exception in place of whatever the handler returned or raised
AfterFinally(r, hbFailed) == IF hbFailed THEN StoreError ELSE r

\* the handler returns r or raises r, and the finally clause runs
HandlerReturn(p, r) ==
    /\ pc[p] = "handler"
    /\ result' = [result EXCEPT ![p] = AfterFinally(r, hb_exc[p])]
    /\ pc' = [pc EXCEPT ![p] = Dispatch(AfterFinally(r, hb_exc[p]))]
    /\ hb_next' = [hb_next EXCEPT ![p] = NULL]
    /\ hb_exc' = [hb_exc EXCEPT ![p] = FALSE]
    /\ UNCHANGED <<tasks, now, ticks, cur, snap, faults, claimLog, claimers,
                 listener, notified, nonEngine>>

WriteStep(p, f, new, next, onError) ==
    /\ Faulty(f) => faults < MaxFaults
    /\ faults' = IF Faulty(f) THEN faults + 1 ELSE faults
    /\ tasks' = [tasks EXCEPT ![cur[p]] = Written(f, tasks[cur[p]], new)]
    /\ pc' = [pc EXCEPT ![p] = IF Faulty(f) THEN onError ELSE next]
    /\ cur' = [cur EXCEPT ![p] =
                 IF (Faulty(f) /\ onError = "write_exc") THEN cur[p] ELSE NoTask]
    /\ result' = [result EXCEPT ![p] =
                    IF (Faulty(f) /\ onError = "write_exc") THEN StoreError ELSE NoResult]
    /\ UNCHANGED <<now, ticks, snap, hb_next, claimLog, claimers,
                 hb_exc, listener, notified, nonEngine>>

\* handler is None: the "Unknown workflow" write, outside the try block: an error
\* of the store leaves _claim_and_run_one and poll_agent_tasks
WriteUnknown(p, f) ==
    /\ pc[p] = "write_unknown"
    /\ WriteStep(p, f,
                 FailRow(tasks[cur[p]], UnknownError(tasks[cur[p]].workflow), now),
                 "drain", "dead")

\* the failure write with result["error"], inside the try block
WriteErr(p, f) ==
    /\ pc[p] = "write_err"
    /\ WriteStep(p, f, FailRow(tasks[cur[p]], result[p].text, now), "drain", "write_exc")

\* faulty variant: after a completed task the poller waits instead of
\* claiming again
WriteOkThenIdle(p, f) ==
    /\ pc[p] = "write_ok"
    /\ WriteStep(p, f,
                 CompleteRow(tasks[cur[p]], Dumps(ResultOrEmpty(result[p])), now),
                 "wait", "write_exc")

\* the completion write, inside the try block
WriteOk(p, f) ==
    /\ pc[p] = "write_ok"
    /\ WriteStep(p, f,
                 CompleteRow(tasks[cur[p]], Dumps(ResultOrEmpty(result[p])), now),
                 "drain", "write_exc")

\* except Exception: the failure write of the except clause; an error here leaves
\* _claim_and_run_one and poll_agent_tasks
WriteExc(p, f) ==
    /\ pc[p] = "write_exc"
    /\ WriteStep(p, f, FailRow(tasks[cur[p]], ExceptionError(result[p]), now),
                 "drain", "dead")

\* faulty variant: _reclaim_stale_tasks without its try / except: the error of
\* the statement leaves poll_agent_tasks
ReclaimUncaught(p) ==
    /\ pc[p] = "reclaim"
    /\ tasks' = ReclaimResult(tasks, now)
    /\ pc' = [pc EXCEPT ![p] = "dead"]
    /\ UNCHANGED <<now, ticks, cur, snap, hb_next, faults, claimLog, claimers,
                 result, hb_exc, listener, notified, nonEngine>>

\* _reclaim_stale_tasks: one statement
Reclaim(p) ==
    /\ pc[p] = "reclaim"
    /\ tasks' = ReclaimResult(tasks, now)
    /\ pc' = [pc EXCEPT ![p] = "wait"]
    /\ UNCHANGED <<now, ticks, cur, snap, hb_next, faults, claimLog, claimers,
                 result, hb_exc, listener, notified, nonEngine>>

\* the clock advances by one heartbeat period, or to just past the stale deadline
TickSteps == {HEARTBEAT_SECONDS, STALE_TASK_TIMEOUT_MINUTES * 60 + HEARTBEAT_SECONDS}

Next ==
    \/ \E t \in Tasks, w \in WorkflowNames : Insert(t, w)
    \/ \E d \in TickSteps : Tick(d)
    \/ \E p \in Procs : Crash(p)
    \/ \E p \in Procs : Wake(p)
    \/ \E p \in Procs : ClaimBegin(p)
    \/ \E p \in Procs : ClaimSelect(p)
    \/ \E p \in Procs : ClaimCommit(p)
    \/ \E p \in Procs : Heartbeat(p)
    \/ \E p \in Procs, r \in CoarseResults : HandlerReturn(p, r)
    \/ \E p \in Procs, f \in StoreOutcomes : WriteUnknown(p, f)
    \/ \E p \in Procs, f \in StoreOutcomes : WriteErr(p, f)
    \/ \E p \in Procs, f \in StoreOutcomes : WriteOk(p, f)
    \/ \E p \in Procs, f \in StoreOutcomes : WriteExc(p, f)
    \/ \E p \in Procs : Reclaim(p)

Spec == Init /\ [][Next]_vars

\* ------------------------------------------------- one engine, every failure
\* One engine process (the one main.py starts) over the same table, with the
\* store errors of the claim statement and of the heartbeat write and every kind
\* of handler result.
Engine == 1

EngineNext ==
    \/ \E t \in Tasks, w \in WorkflowNames : Insert(t, w)
    \/ \E d \in TickSteps : Tick(d)
    \/ Wake(Engine)
    \/ ClaimBegin(Engine)
    \/ ClaimFail(Engine)
    \/ ClaimSelect(Engine)
    \/ ClaimCommit(Engine)
    \/ Heartbeat(Engine)
    \/ \E f \in StoreOutcomes : HeartbeatFail(Engine, f)
    \/ \E r \in HandlerResults : HandlerReturn(Engine, r)
    \/ \E f \in StoreOutcomes : WriteUnknown(Engine, f)
    \/ \E f \in StoreOutcomes : WriteErr(Engine, f)
    \/ \E f \in StoreOutcomes : WriteOk(Engine, f)
    \/ \E f \in StoreOutcomes : WriteExc(Engine, f)
    \/ Reclaim(Engine)

EngineSpec == Init /\ [][EngineNext]_vars

\* ------------------------------------------------------------ the scheduler
\* The wake scheduler of every engine process with its listener, while the store
\* answers and every handler returns before its first heartbeat is due.
\* the steps of poll_agent_tasks and of what it calls in process p
PollerStep(p) ==
    \/ Wake(p)
    \/ ClaimBegin(p)
    \/ ClaimSelect(p)
    \/ ClaimCommit(p)
    \/ \E r \in CoarseResults : HandlerReturn(p, r)
    \/ WriteUnknown(p, "done")
    \/ WriteErr(p, "done")
    \/ WriteOk(p, "done")
    \/ WriteExc(p, "done")
    \/ Reclaim(p)

SchedulerNext ==
    \/ \E t \in Tasks, w \in WorkflowNames : Insert(t, w)
    \/ \E p \in Procs : Notify(p)
    \/ \E p \in Procs : ListenerFail(p)
    \/ \E p \in Procs : Wake(p)
    \/ \E p \in Procs : ClaimBegin(p)
    \/ \E p \in Procs : ClaimSelect(p)
    \/ \E p \in Procs : ClaimCommit(p)
    \/ \E p \in Procs, r \in CoarseResults : HandlerReturn(p, r)
    \/ \E p \in Procs : WriteUnknown(p, "done")
    \/ \E p \in Procs : WriteErr(p, "done")
    \/ \E p \in Procs : WriteOk(p, "done")
    \/ \E p \in Procs : WriteExc(p, "done")
    \/ \E p \in Procs : Reclaim(p)

\* The event loop of a process runs its poller whenever the poller can go on: a
\* timer that is over, a reply of the store and a handler that returns are not
\* put off for ever.  Nothing obliges a producer to insert, a notification to
\* arrive or a listener to fail.
SchedulerFairness == \A p \in Procs : WF_vars(PollerStep(p))

SchedulerSpec == Init /\ [][SchedulerNext]_vars /\ SchedulerFairness

\* ------------------------------------------------------- the realtime bridge
\* faulty variant: the bridge enters its loop whether or not a key is set
BridgeStartAlways ==
    /\ bridge = "start"
    /\ bridge' = "acquire"
    /\ backoff' = BRIDGE_RECONNECT_BASE
    /\ UNCHANGED <<api_key, conn, streak, notifs, pending, attempts, outsideBridge>>

\* centrifugo_bridge starts: without a relay API key it returns at once,
\* otherwise it creates the HTTP client and enters its loop
BridgeStart ==
    /\ bridge = "start"
    /\ IF api_key
       THEN bridge' = "acquire" /\ backoff' = BRIDGE_RECONNECT_BASE
       ELSE bridge' = "returned" /\ UNCHANGED backoff
    /\ UNCHANGED <<api_key, conn, streak, notifs, pending, attempts, outsideBridge>>

\* pool.acquire and the three add_listener calls go through: the backoff is
\* reset and the bridge sleeps in its inner loop
BridgeSubscribe ==
    /\ bridge = "acquire"
    /\ conn' = "live"
    /\ backoff' = BRIDGE_RECONNECT_BASE
    /\ streak' = 0
    /\ bridge' = "subscribed"
    /\ UNCHANGED <<api_key, notifs, pending, attempts, outsideBridge>>

\* pool.acquire raises (conn stays None) or an add_listener raises (conn is
\* held, alive or not): except Exception logs, and the finally clause is next
BridgeSubscribeFail(c) ==
    /\ bridge = "acquire"
    /\ conn' = c
    /\ streak' = IF streak < MaxStreak THEN streak + 1 ELSE streak
    /\ bridge' = "release"
    /\ UNCHANGED <<api_key, backoff, notifs, pending, attempts, outsideBridge>>

\* finally: if conn, the listeners are removed and the connection goes back
\* to the pool
BridgeRelease ==
    /\ bridge = "release"
    /\ conn' = "none"
    /\ bridge' = "sleep"
    /\ UNCHANGED <<api_key, backoff, streak, notifs, pending, attempts, outsideBridge>>

\* asyncio.sleep(backoff) is over; backoff = min(backoff * 2, MAX); next turn
\* of the outer loop
BridgeBackoff ==
    /\ bridge = "sleep"
    /\ backoff' = BackoffNext(backoff)
    /\ bridge' = "acquire"
    /\ UNCHANGED <<api_key, conn, streak, notifs, pending, attempts, outsideBridge>>

\* the connection the bridge listens on dies; the bridge is inside
\* asyncio.sleep(3600), which raises nothing
CarrierDies ==
    /\ bridge = "subscribed"
    /\ conn = "live"
    /\ conn' = "dead"
    /\ UNCHANGED <<api_key, bridge, backoff, streak, notifs, pending, attempts,
                 outsideBridge>>

\* _on_notify: a notification arrives on a listened channel of the live
\* connection, and a _publish task is created for it
BridgeNotify ==
    /\ bridge = "subscribed"
    /\ conn = "live"
    /\ notifs < MaxNotifs
    /\ notifs' = notifs + 1
    /\ pending' = pending \cup {notifs + 1}
    /\ UNCHANGED <<api_key, bridge, backoff, conn, streak, attempts, outsideBridge>>

\* faulty variant: a publish that did not get a 200 is tried again
PublishRetrying(n, o) ==
    /\ n \in pending
    /\ attempts' = [attempts EXCEPT ![n] = Append(@, o)]
    /\ pending' = IF o = "200" THEN pending \ {n} ELSE pending
    /\ UNCHANGED <<api_key, bridge, backoff, conn, streak, notifs, outsideBridge>>

\* _publish runs for notification n and the relay answers o: nothing is sent
\* without an API key or a client; a failure is logged and the task ends
Publish(n, o) ==
    /\ n \in pending
    /\ attempts' = IF api_key /\ HttpClient
                   THEN [attempts EXCEPT ![n] = Append(@, o)]
                   ELSE attempts
    /\ pending' = pending \ {n}
    /\ UNCHANGED <<api_key, bridge, backoff, conn, streak, notifs, outsideBridge>>

\* the steps of centrifugo_bridge itself
BridgeStep ==
    \/ BridgeStart
    \/ BridgeSubscribe
    \/ \E c \in {"none", "live", "dead"} : BridgeSubscribeFail(c)
    \/ BridgeRelease
    \/ BridgeBackoff

\* the engine process starts with or without a relay API key
BridgeSpecInit ==
    /\ EngineInit
    /\ \E key \in BOOLEAN : BridgeInit(key)
    /\ VaultInit("K1")
    /\ LifeInit
    /\ CacheInit

\* The bridge of the engine process, with the poller of the same process
\* while the store answers.
BridgeNext ==
    \/ BridgeStart
    \/ BridgeSubscribe
    \/ \E c \in {"none", "live", "dead"} : BridgeSubscribeFail(c)
    \/ BridgeRelease
    \/ BridgeBackoff
    \/ CarrierDies
    \/ BridgeNotify
    \/ \E n \in 1 .. MaxNotifs, o \in RelayOutcomes : Publish(n, o)
    \/ \E t \in Tasks, w \in WorkflowNames : Insert(t, w)
    \/ Wake(Engine)
    \/ ClaimBegin(Engine)
    \/ ClaimSelect(Engine)
    \/ ClaimCommit(Engine)
    \/ \E r \in CoarseResults : HandlerReturn(Engine, r)
    \/ WriteUnknown(Engine, "done")
    \/ WriteErr(Engine, "done")
    \/ WriteOk(Engine, "done")
    \/ WriteExc(Engine, "done")
    \/ Reclaim(Engine)

BridgeSpec == BridgeSpecInit /\ [][BridgeNext]_vars

\* ------------------------------------------------------------------ the vault
\* the id the store gives the next inserted credential
FreshCred == CHOOSE c \in Creds : ~credentials[c].present /\
                \A d \in Creds : ~credentials[d].present => c <= d

\* WHERE id = $1 AND owner_id = $2
OwnedRow(c, o) == credentials[c].present /\ credentials[c].owner_id = o

\* one more call is made
Called == calls < MaxCalls /\ calls' = calls + 1

\* create_credential(owner_id, name, service, cred_type, config): encrypt,
\* then INSERT
CreateCredential(o, name, service, cfg) ==
    /\ Called
    /\ \E c \in Creds : ~credentials[c].present
    /\ fernet' = GetFernet
    /\ IF GetFernet = "none"
       THEN /\ ret' = RetRaise("create_credential", o, NoCred, "RuntimeError", KeyError)
            /\ UNCHANGED <<credentials, plain>>
       ELSE /\ credentials' =
                 [credentials EXCEPT ![FreshCred] =
                     [present |-> TRUE, owner_id |-> o, name |-> name,
                      service |-> service, is_active |-> TRUE,
                      config_encrypted |-> Encrypt(GetFernet, cfg)]]
            /\ plain' = [plain EXCEPT ![FreshCred] = cfg]
            /\ ret' = Ret("create_credential", o, FreshCred, "row", "", "",
                          {FreshCred}, CfgEmpty)
    /\ UNCHANGED <<vault_key, outsideVault>>

\* the row after UPDATE credentials SET ...: a field given as "unset" (None)
\* is not in the SET list
UpdatedCred(row, name, service, hasCfg, token, active) ==
    [row EXCEPT !.name = IF name = "unset" THEN @ ELSE name,
                !.service = IF service = "unset" THEN @ ELSE service,
                !.config_encrypted = IF hasCfg THEN token ELSE @,
                !.is_active = IF active = "unset" THEN @ ELSE active = "true"]

\* faulty variant: the UPDATE is not scoped to the owner
UpdateAnyOwner(c, o, name, service, hasCfg, cfg, active) ==
    /\ Called
    /\ fernet' = IF hasCfg THEN GetFernet ELSE fernet
    /\ IF hasCfg /\ GetFernet = "none"
       THEN /\ ret' = RetRaise("update_credential", o, c, "RuntimeError", KeyError)
            /\ UNCHANGED <<credentials, plain>>
       ELSE IF name = "unset" /\ service = "unset" /\ ~hasCfg /\ active = "unset"
       THEN /\ ret' = Ret("update_credential", o, c, "empty", "", "", {}, CfgEmpty)
            /\ UNCHANGED <<credentials, plain>>
       ELSE IF credentials[c].present
       THEN /\ credentials' =
                 [credentials EXCEPT ![c] =
                     UpdatedCred(@, name, service, hasCfg,
                                 Encrypt(GetFernet, cfg), active)]
            /\ plain' = IF hasCfg THEN [plain EXCEPT ![c] = cfg] ELSE plain
            /\ ret' = Ret("update_credential", o, c, "row", "", "", {c}, CfgEmpty)
       ELSE /\ ret' = Ret("update_credential", o, c, "empty", "", "", {}, CfgEmpty)
            /\ UNCHANGED <<credentials, plain>>
    /\ UNCHANGED <<vault_key, outsideVault>>

\* update_credential(credential_id, owner_id, name, service, config,
\* is_active): the SET list is built (config is encrypted while it is), an
\* empty list returns {}, otherwise one UPDATE ... WHERE id AND owner_id
UpdateCredential(c, o, name, service, hasCfg, cfg, active) ==
    /\ Called
    /\ fernet' = IF hasCfg THEN GetFernet ELSE fernet
    /\ IF hasCfg /\ GetFernet = "none"
       THEN /\ ret' = RetRaise("update_credential", o, c, "RuntimeError", KeyError)
            /\ UNCHANGED <<credentials, plain>>
       ELSE IF name = "unset" /\ service = "unset" /\ ~hasCfg /\ active = "unset"
       THEN /\ ret' = Ret("update_credential", o, c, "empty", "", "", {}, CfgEmpty)
            /\ UNCHANGED <<credentials, plain>>
       ELSE IF OwnedRow(c, o)
       THEN /\ credentials' =
                 [credentials EXCEPT ![c] =
                     UpdatedCred(@, name, service, hasCfg,
                                 Encrypt(GetFernet, cfg), active)]
            /\ plain' = IF hasCfg THEN [plain EXCEPT ![c] = cfg] ELSE plain
            /\ ret' = Ret("update_credential", o, c, "row", "", "", {c}, CfgEmpty)
       ELSE /\ ret' = Ret("update_credential", o, c, "empty", "", "", {}, CfgEmpty)
            /\ UNCHANGED <<credentials, plain>>
    /\ UNCHANGED <<vault_key, outsideVault>>

\* get_credential_decrypted(credential_id), called by the HTTP tool of an agent
\* run of owner o: SELECT ... WHERE id = $1, then decrypt
GetCredentialDecrypted(c, o) ==
    /\ Called
    /\ IF ~credentials[c].present
       THEN /\ ret' = RetRaise("get_credential_decrypted", o, c, "ValueError",
                               NotFoundError)
            /\ UNCHANGED fernet
       ELSE /\ fernet' = GetFernet
            /\ ret' =
                 IF GetFernet = "none"
                 THEN RetRaise("get_credential_decrypted", o, c, "RuntimeError", KeyError)
                 ELSE IF ~Decrypt(GetFernet, credentials[c].config_encrypted).ok
                 THEN RetRaise("get_credential_decrypted", o, c, "ValueError",
                               DecryptError)
                 ELSE Ret("get_credential_decrypted", o, c, "row", "", "", {c},
                          Decrypt(GetFernet, credentials[c].config_encrypted).config)
    /\ UNCHANGED <<vault_key, credentials, plain, outsideVault>>

\* WHERE service = $1 AND owner_id = $2 AND is_active = true
ServiceRows(service, o) ==
    {c \in Creds : /\ OwnedRow(c, o)
                   /\ credentials[c].service = service
                   /\ credentials[c].is_active}

\* get_credentials_by_service(service, owner_id): every selected row is
\* decrypted
GetCredentialsByService(service, o) ==
    /\ Called
    /\ IF ServiceRows(service, o) = {}
       THEN /\ ret' = Ret("get_credentials_by_service", o, NoCred, "rows", "", "",
                          {}, CfgEmpty)
            /\ UNCHANGED fernet
       ELSE /\ fernet' = GetFernet
            /\ ret' =
                 IF GetFernet = "none"
                 THEN RetRaise("get_credentials_by_service", o, NoCred,
                               "RuntimeError", KeyError)
                 ELSE IF \E c \in ServiceRows(service, o) :
                            ~Decrypt(GetFernet, credentials[c].config_encrypted).ok
                 THEN RetRaise("get_credentials_by_service", o, NoCred,
                               "ValueError", DecryptError)
                 ELSE Ret("get_credentials_by_service", o, NoCred, "rows", "", "",
                          ServiceRows(service, o), CfgEmpty)
    /\ UNCHANGED <<vault_key, credentials, plain, outsideVault>>

\* list_credentials(owner_id): the owner's rows, without config_encrypted
ListCredentials(o) ==
    /\ Called
    /\ ret' = Ret("list_credentials", o, NoCred, "rows", "", "",
                  {c \in Creds : OwnedRow(c, o)}, CfgEmpty)
    /\ UNCHANGED <<vault_key, fernet, credentials, plain, outsideVault>>

\* delete_credential(credential_id, owner_id): DELETE ... WHERE id AND
\* owner_id; result == "DELETE 1"
DeleteCredential(c, o) ==
    /\ Called
    /\ IF OwnedRow(c, o)
       THEN /\ credentials' = [credentials EXCEPT ![c] = AbsentCred]
            /\ plain' = [plain EXCEPT ![c] = CfgEmpty]
            /\ ret' = Ret("delete_credential", o, c, "bool", "", "true", {c}, CfgEmpty)
       ELSE /\ ret' = Ret("delete_credential", o, c, "bool", "", "false", {}, CfgEmpty)
            /\ UNCHANGED <<credentials, plain>>
    /\ UNCHANGED <<vault_key, fernet, outsideVault>>

\* config.get(k, "")
ConfigGet(cfg, k) == IF k \in DOMAIN cfg THEN cfg[k].v ELSE ""

\* WHERE service = 'llm' AND is_active = true
LlmRows == {c \in Creds : /\ credentials[c].present
                          /\ credentials[c].service = "llm"
                          /\ credentials[c].is_active}

\* the LLMConfig built from what the vault gave (provider, model, api_key; ""
\* each when it gave nothing) and the app_settings / environment fallbacks
LlmConfig(o, c, provider, model, key, app) ==
    Ret("get_llm_config", o, c, "llm",
        IF provider # "" /\ model # "" THEN "vault"
        ELSE IF app = "set" THEN "app_settings" ELSE "env",
        IF key # "" THEN key
        ELSE IF (provider = "" \/ model = "") /\ app = "set" THEN "sk-app"
        ELSE "",
        {}, CfgEmpty)

\* get_llm_config() on a cache miss, for a run of owner o, while app_settings
\* holds LLM settings or not: one active llm row is read and decrypted; any
\* exception on the way is passed over and the fallbacks are used
GetLlmConfig(o, app) ==
    /\ Called
    /\ \/ /\ LlmRows = {}
          /\ ret' = LlmConfig(o, NoCred, "", "", "", app)
          /\ UNCHANGED fernet
       \/ \E c \in LlmRows :
             /\ fernet' = GetFernet
             /\ ret' =
                  IF GetFernet = "none"
                     \/ ~Decrypt(GetFernet, credentials[c].config_encrypted).ok
                  THEN LlmConfig(o, c, "", "", "", app)
                  ELSE LET cfg == Decrypt(GetFernet, credentials[c].config_encrypted).config
                       IN LlmConfig(o, c, ConfigGet(cfg, "provider"),
                                    ConfigGet(cfg, "model"),
                                    ConfigGet(cfg, "api_key"), app)
    /\ UNCHANGED <<vault_key, credentials, plain, outsideVault>>

\* the process is stopped and started again with another ROKA_VAULT_KEY in
\* its environment; the module global _fernet starts as None
Restart(k) ==
    /\ Called
    /\ k # vault_key
    /\ vault_key' = k
    /\ fernet' = "none"
    /\ ret' = NoRet
    /\ UNCHANGED <<credentials, plain, outsideVault>>

\* the field combinations an update is drawn from: nothing, each field alone,
\* and all of them
UpdateRequests ==
    {[name |-> "unset", service |-> "unset", hasCfg |-> FALSE, active |-> "unset"],
     [name |-> "renamed", service |-> "unset", hasCfg |-> FALSE, active |-> "unset"],
     [name |-> "unset", service |-> "llm", hasCfg |-> FALSE, active |-> "unset"],
     [name |-> "unset", service |-> "unset", hasCfg |-> FALSE, active |-> "false"],
     [name |-> "unset", service |-> "unset", hasCfg |-> TRUE, active |-> "unset"],
     [name |-> "renamed", service |-> "llm", hasCfg |-> TRUE, active |-> "true"]}

VaultSpecInit ==
    /\ EngineInit
    /\ BridgeInit(FALSE)
    /\ \E k \in VaultKeys : VaultInit(k)
    /\ LifeInit
    /\ CacheInit

VaultNext ==
    \/ \E o \in Owners, service \in {"llm", "http"}, cfg \in Configs :
          CreateCredential(o, "cred", service, cfg)
    \/ \E c \in Creds, o \in Owners, u \in UpdateRequests :
          \E cfg \in IF u.hasCfg THEN Configs ELSE {CfgEmpty} :
             UpdateCredential(c, o, u.name, u.service, u.hasCfg, cfg, u.active)
    \/ \E c \in Creds, o \in Owners : GetCredentialDecrypted(c, o)
    \/ \E service \in {"llm", "http"}, o \in Owners : GetCredentialsByService(service, o)
    \/ \E o \in Owners : ListCredentials(o)
    \/ \E c \in Creds, o \in Owners : DeleteCredential(c, o)
    \/ \E o \in Owners, app \in {"set", "unset"} : GetLlmConfig(o, app)
    \/ \E k \in VaultKeys : Restart(k)

VaultSpec == VaultSpecInit /\ [][VaultNext]_vars

\* ------------------------------------------------------------------ shutdown
\* the CancelledError task.cancel() throws into a coroutine
CancelledError == Raised("CancelledError", "", 0)

\* lifespan after the yield: bridge_task.cancel() and await bridge_task. The
\* bridge's finally clauses release its connection and close the client; a
\* bridge that had returned stays returned. Then task.cancel(). A bridge that
\* is already in its inner finally clause with an open connection is suspended
\* either in pool.release, which is shielded and goes through, or in a
\* remove_listener call, where the CancelledError passes except Exception
\* and leaves the clause before pool.release.
ShutdownBridge ==
    /\ lifespan = "serving"
    /\ bridge' = IF bridge = "returned" THEN "returned" ELSE "cancelled"
    /\ \/ conn' = "none"
       \/ bridge = "release" /\ conn = "live" /\ conn' = conn
    /\ lifespan' = "await_task"
    /\ UNCHANGED <<api_key, backoff, streak, notifs, pending, attempts, engineVars,
                   vaultVars, pool_open, cancel_thrown, cacheVars>>

\* the CancelledError reaches the poller at the await it is suspended in. In
\* the handler call the inner finally runs first and what it leaves goes on:
\* the CancelledError passes except Exception and reaches the except clause
\* of poll_agent_tasks, which cancels and awaits listener_task; an exception
\* of heartbeat_task is caught by except Exception and the poller goes on.
PollerCancel(p) ==
    /\ lifespan = "await_task"
    /\ ~cancel_thrown
    /\ pc[p] \notin {"dead", "cancelled"}
    /\ cancel_thrown' = TRUE
    /\ IF pc[p] = "handler" /\ AfterFinally(CancelledError, hb_exc[p]) # CancelledError
       THEN /\ result' = [result EXCEPT ![p] = AfterFinally(CancelledError, hb_exc[p])]
            /\ pc' = [pc EXCEPT ![p] = Dispatch(AfterFinally(CancelledError, hb_exc[p]))]
            /\ UNCHANGED listener
       ELSE /\ pc' = [pc EXCEPT ![p] = "cancelled"]
            /\ listener' = [listener EXCEPT ![p] = "cancelled"]
            /\ UNCHANGED result
    /\ hb_next' = [hb_next EXCEPT ![p] = NULL]
    /\ hb_exc' = [hb_exc EXCEPT ![p] = FALSE]
    /\ UNCHANGED <<tasks, now, ticks, cur, snap, faults, claimLog, claimers, notified,
                   bridgeVars, vaultVars, lifespan, pool_open, cycleVars, cacheVars>>

\* await task returns with the poller's CancelledError, which is passed over;
\* close_checkpointer and close_pool follow
ShutdownClose(p) ==
    /\ lifespan = "await_task"
    /\ pc[p] = "cancelled"
    /\ lifespan' = "closed"
    /\ pool_open' = FALSE
    /\ UNCHANGED <<engineVars, bridgeVars, vaultVars, cancel_thrown, cacheVars>>

\* await task raises the exception the poller had ended with: lifespan is
\* left through it and nothing after the await runs
ShutdownRaise(p) ==
    /\ lifespan = "await_task"
    /\ pc[p] = "dead"
    /\ lifespan' = "raised"
    /\ UNCHANGED <<engineVars, bridgeVars, vaultVars, pool_open, cancel_thrown, cacheVars>>

\* _on_notify runs for the first notification of the process
FirstNotify == notifs = 0 /\ BridgeNotify

\* the engine process starts with a relay API key
ShutdownSpecInit ==
    /\ EngineInit
    /\ BridgeInit(TRUE)
    /\ VaultInit("K1")
    /\ LifeInit
    /\ CacheInit

\* One engine process from startup to shutdown: its poller with the store
\* errors it can meet, its bridge with one notification to relay, and the
\* shutdown half of lifespan.
ShutdownNext ==
    \/ \E t \in Tasks, w \in WorkflowNames : Insert(t, w)
    \/ \E d \in TickSteps : Tick(d)
    \/ Wake(Engine)
    \/ ClaimBegin(Engine)
    \/ ClaimFail(Engine)
    \/ ClaimSelect(Engine)
    \/ ClaimCommit(Engine)
    \/ Heartbeat(Engine)
    \/ \E f \in StoreOutcomes : HeartbeatFail(Engine, f)
    \/ \E r \in CoarseResults : HandlerReturn(Engine, r)
    \/ WriteUnknown(Engine, "done")
    \/ WriteErr(Engine, "done")
    \/ WriteOk(Engine, "done")
    \/ WriteExc(Engine, "done")
    \/ Reclaim(Engine)
    \/ BridgeStart
    \/ BridgeSubscribe
    \/ FirstNotify
    \/ \E n \in 1 .. MaxNotifs, o \in RelayOutcomes : Publish(n, o)
    \/ ShutdownBridge
    \/ PollerCancel(Engine)
    \/ ShutdownClose(Engine)
    \/ ShutdownRaise(Engine)

ShutdownSpec == ShutdownSpecInit /\ [][ShutdownNext]_vars

\* ------------------------------------------------------------ counted cycles
\* faulty variant: the counter is compared with > instead of >=
SweepDueLate(n) == n > STALE_CHECK_CYCLES

\* if stale_check_counter >= 12, after the increment
SweepDue(n) == n >= STALE_CHECK_CYCLES

\* the sub-select of the claim statement with what follows a claim that
\* returned no row: stale_check_counter += 1; when it has reached 12 it is
\* reset and _reclaim_stale_tasks is called, otherwise the loop waits again
CountedSelect(p) ==
    /\ pc[p] = "claim_scan"
    /\ \/ /\ Eligible(p) = {}
          /\ cycles' = [cycles EXCEPT ![p] = @ + 1]
          /\ UNCHANGED heard
          /\ IF SweepDue(stale_check_counter[p] + 1)
             THEN /\ stale_check_counter' = [stale_check_counter EXCEPT ![p] = 0]
                  /\ pc' = [pc EXCEPT ![p] = "reclaim"]
             ELSE /\ stale_check_counter' = [stale_check_counter EXCEPT ![p] = @ + 1]
                  /\ pc' = [pc EXCEPT ![p] = "wait"]
          /\ cur' = [cur EXCEPT ![p] = NoTask]
       \/ /\ \E t \in Oldest(Eligible(p)) : cur' = [cur EXCEPT ![p] = t]
          /\ pc' = [pc EXCEPT ![p] = "claim_locked"]
          /\ UNCHANGED cycleVars
    /\ snap' = [snap EXCEPT ![p] = {}]
    /\ UNCHANGED <<tasks, now, ticks, hb_next, faults, claimLog, claimers,
                   result, hb_exc, listener, notified, bridgeVars, vaultVars, lifeVars,
                   cacheVars>>

\* a wait of the poller ends, while fewer than MaxCycles drains have ended
CountedWake(p) == cycles[p] < MaxCycles /\ Wake(p)

\* The poller of one engine process with its cycle counter, while the store
\* answers every statement but the sweep.
CycleNext ==
    \/ \E t \in Tasks, w \in WorkflowNames : Insert(t, w)
    \/ Notify(Engine)
    \/ CountedWake(Engine)
    \/ ClaimBegin(Engine)
    \/ CountedSelect(Engine)
    \/ ClaimCommit(Engine)
    \/ \E r \in CoarseResults : HandlerReturn(Engine, r)
    \/ WriteUnknown(Engine, "done")
    \/ WriteErr(Engine, "done")
    \/ WriteOk(Engine, "done")
    \/ WriteExc(Engine, "done")
    \/ Reclaim(Engine)

CycleSpec == Init /\ [][CycleNext]_vars


\* ------------------------------------------------- the bridge to its end
\* The bridge of the engine process with every failure of its subscription,
\* from its start to its cancellation by lifespan, and the publish tasks that
\* are still to run then.
BridgeLifeNext ==
    \/ BridgeStart
    \/ BridgeSubscribe
    \/ \E c \in {"none", "live", "dead"} : BridgeSubscribeFail(c)
    \/ BridgeRelease
    \/ BridgeBackoff
    \/ CarrierDies
    \/ BridgeNotify
    \/ \E n \in 1 .. MaxNotifs, o \in RelayOutcomes : Publish(n, o)
    \/ ShutdownBridge

BridgeLifeSpec == BridgeSpecInit /\ [][BridgeLifeNext]_vars

\* ------------------------------------------------ the LLM configuration cache
\* _cache is not None and (now - _cache_ts) < settings.llm_cache_ttl_seconds
Fresh(t) == cache # NoConfig /\ t - cache_ts < LLM_CACHE_TTL

\* get_llm_config is called: the check before the lock; a fresh cache is
\* returned, otherwise the call goes to the lock
CallCheck(c) ==
    /\ llm_call[c].pc = "idle"
    /\ llm_call' = [llm_call EXCEPT ![c] =
                      IF Fresh(mono)
                      THEN [@ EXCEPT !.pc = "returned", !.now = mono,
                                     !.ret = cache, !.since = invals]
                      ELSE [@ EXCEPT !.pc = "lock_wait", !.now = mono,
                                     !.since = invals]]
    /\ UNCHANGED <<llm_store, cache, cache_ts, cache_lock, mono, mono_ticks, invals,
                   engineVars, bridgeVars, vaultVars, lifeVars>>

\* async with _get_lock(): the call gets the lock and checks again; a fresh
\* cache is returned and the lock given back, otherwise the call sends its
\* query and is suspended holding the lock
LockEnter(c) ==
    /\ llm_call[c].pc = "lock_wait"
    /\ cache_lock = NoCall
    /\ IF Fresh(mono)
       THEN /\ llm_call' = [llm_call EXCEPT ![c] =
                               [@ EXCEPT !.pc = "returned", !.now = mono, !.ret = cache]]
            /\ UNCHANGED cache_lock
       ELSE /\ llm_call' = [llm_call EXCEPT ![c] =
                               [@ EXCEPT !.pc = "reading", !.now = mono]]
            /\ cache_lock' = c
    /\ UNCHANGED <<llm_store, cache, cache_ts, mono, mono_ticks, invals,
                   engineVars, bridgeVars, vaultVars, lifeVars>>

\* the store runs the queries of the call and answers with what it holds
StoreRead(c) ==
    /\ llm_call[c].pc = "reading"
    /\ llm_call' = [llm_call EXCEPT ![c] =
                      [@ EXCEPT !.pc = "resume", !.got = Config(llm_store, invals)]]
    /\ UNCHANGED <<llm_store, cache, cache_ts, cache_lock, mono, mono_ticks, invals,
                   engineVars, bridgeVars, vaultVars, lifeVars>>

\* the call is resumed with the answer: _cache = LLMConfig(...), _cache_ts =
\* now (the now taken under the lock), return _cache; the lock is given back
CacheStore(c) ==
    /\ llm_call[c].pc = "resume"
    /\ cache' = llm_call[c].got
    /\ cache_ts' = llm_call[c].now
    /\ cache_lock' = NoCall
    /\ llm_call' = [llm_call EXCEPT ![c] =
                      [@ EXCEPT !.pc = "returned", !.ret = llm_call[c].got]]
    /\ UNCHANGED <<llm_store, mono, mono_ticks, invals,
                   engineVars, bridgeVars, vaultVars, lifeVars>>

\* invalidate_cache(): _cache = None, _cache_ts = 0.0, with no look at the lock
InvalidateCache ==
    /\ invals < MaxInvals
    /\ cache' = NoConfig
    /\ cache_ts' = 0
    /\ invals' = invals + 1
    /\ UNCHANGED <<llm_store, cache_lock, mono, mono_ticks, llm_call,
                   engineVars, bridgeVars, vaultVars, lifeVars>>

\* the LLM configuration in the store is changed
StoreWrite ==
    /\ llm_store < MaxVersions
    /\ llm_store' = llm_store + 1
    /\ UNCHANGED <<cache, cache_ts, cache_lock, mono, mono_ticks, invals, llm_call,
                   engineVars, bridgeVars, vaultVars, lifeVars>>

\* half the time to live passes on the monotonic clock
MonoTick ==
    /\ mono_ticks < MaxMonoTicks
    /\ mono_ticks' = mono_ticks + 1
    /\ mono' = mono + LLM_CACHE_TTL \div 2
    /\ UNCHANGED <<llm_store, cache, cache_ts, cache_lock, invals, llm_call,
                   engineVars, bridgeVars, vaultVars, lifeVars>>

CacheNext ==
    \/ \E c \in Calls : CallCheck(c)
    \/ \E c \in Calls : LockEnter(c)
    \/ \E c \in Calls : StoreRead(c)
    \/ \E c \in Calls : CacheStore(c)
    \/ InvalidateCache
    \/ StoreWrite
    \/ MonoTick

CacheSpec == Init /\ [][CacheNext]_vars

\* -------------------------------------------------------- notified wake-ups
\* The schedulers with their listeners, each notification told apart by the task
\* whose insertion sent it.
\* _listen_loop's callback runs in process p for the NOTIFY new_task that the
\* insertion of task t sent: notify_event.set(); a notification is delivered to
\* a listening process once, some time after the insertion, or never
Deliver(p, t) ==
    /\ listener[p] = "listening"
    /\ tasks[t].status # "absent"
    /\ t \notin heard[p]
    /\ notified' = [notified EXCEPT ![p] = TRUE]
    /\ heard' = [heard EXCEPT ![p] = @ \cup {t}]
    /\ UNCHANGED <<tasks, now, ticks, pc, cur, snap, hb_next, faults, claimLog,
                   claimers, result, hb_exc, listener, bridgeVars, vaultVars,
                   lifeVars, stale_check_counter, cycles, cacheVars>>

WakeNext ==
    \/ \E t \in Tasks, w \in WorkflowNames : Insert(t, w)
    \/ \E p \in Procs, t \in Tasks : Deliver(p, t)
    \/ \E p \in Procs : Wake(p)
    \/ \E p \in Procs : ClaimBegin(p)
    \/ \E p \in Procs : ClaimSelect(p)
    \/ \E p \in Procs : ClaimCommit(p)
    \/ \E p \in Procs, r \in CoarseResults : HandlerReturn(p, r)
    \/ \E p \in Procs : WriteUnknown(p, "done")
    \/ \E p \in Procs : WriteErr(p, "done")
    \/ \E p \in Procs : WriteOk(p, "done")
    \/ \E p \in Procs : WriteExc(p, "done")
    \/ \E p \in Procs : Reclaim(p)

WakeSpec == Init /\ [][WakeNext]_vars

\* ================================================================ claims
\* the process holds a row the claim statement gave it
Holding(p) ==
    pc[p] \in {"claim_locked", "handler", "write_unknown", "write_ok",
               "write_err", "write_exc", "crashed"}

\* C1: under every interleaving of the engine processes, no task is returned
\* by the claim statement twice, and no two processes hold (are locking,
\* executing or writing the result of) the same task at the same time.
C1_NoDoubleClaim ==
    /\ \A i, j \in 1 .. Len(claimLog) :
          i # j => claimLog[i] # claimLog[j]
    /\ \A p, q \in Procs :
          (p # q /\ Holding(p) /\ Holding(q)) => cur[p] # cur[q]

\* two claim statements are in flight over the same single pending task: one has
\* taken the row, the other still has it in its snapshot
C1_Witness ==
    \E p, q \in Procs, t \in Tasks :
       /\ p # q
       /\ pc[p] = "handler" /\ cur[p] = t
       /\ pc[q] = "claim_scan" /\ snap[q] = {t}


\* ------------------------------------------------------------------ C2, C3
\* the status changes the data model allows: pending -> running -> terminal
AllowedStatusStep(a, b) ==
    \/ a = b
    \/ a = "absent" /\ b = "pending"
    \/ a = "pending" /\ b = "running"
    \/ a = "running" /\ Terminal(b)

\* C2: every change of a task's status follows pending -> running -> {completed,
\* failed, cancelled}, and a task that reached a terminal status keeps its row:
\* it shows one terminal status over its lifetime.
C2_StatusMonotone ==
    [][\A t \in Tasks :
          AllowedStatusStep(tasks[t].status, tasks'[t].status)]_vars

\* a terminal write of process p is taken in this step
TerminalWriteStep(p) ==
    /\ pc[p] \in {"write_unknown", "write_ok", "write_err", "write_exc"}
    /\ pc'[p] # pc[p]

\* C3: the completion write and the failure writes are no-ops on a task that is
\* already terminal: status, error, output and completed_at stay as they were.
C3_TerminalWriteNoOp ==
    [][\A p \in Procs :
          (TerminalWriteStep(p) /\ Terminal(tasks[cur[p]].status)) =>
              /\ tasks'[cur[p]].status = tasks[cur[p]].status
              /\ tasks'[cur[p]].error = tasks[cur[p]].error
              /\ tasks'[cur[p]].output = tasks[cur[p]].output
              /\ tasks'[cur[p]].completed_at = tasks[cur[p]].completed_at]_vars

\* ------------------------------------------------------------------ C4
\* the sub-select of process p's claim statement is taken in this step
SelectStep(p) == pc[p] = "claim_scan" /\ pc'[p] # "claim_scan"

PendingNow(t) == tasks[t].status = "pending"

\* C4: a claim statement in flight can always go on (it never waits for a lock);
\* the row it takes is pending and not locked by another claim, and no older
\* unlocked pending row of its snapshot exists; it returns no row only when
\* every pending row of its snapshot is locked by another claim.
C4_SkipLocked ==
    /\ [](\A p \in Procs : pc[p] = "claim_scan" => ENABLED ClaimSelect(p))
    /\ [][\A p \in Procs : SelectStep(p) =>
            IF pc'[p] = "claim_locked"
            THEN /\ PendingNow(cur'[p]) /\ ~Locked(cur'[p])
                 /\ \A u \in snap[p] :
                       (PendingNow(u) /\ ~Locked(u)) =>
                          tasks[cur'[p]].created_at <= tasks[u].created_at
            ELSE \A u \in snap[p] : PendingNow(u) => Locked(u)]_vars

\* a claim took the younger of two pending rows because another claim in flight
\* holds the lock of the older one
C4_Witness ==
    \E p, q \in Procs, t, u \in Tasks :
       /\ p # q /\ t # u
       /\ pc[p] = "claim_locked" /\ cur[p] = t /\ PendingNow(t)
       /\ pc[q] = "claim_locked" /\ cur[q] = u /\ PendingNow(u)
       /\ tasks[t].created_at < tasks[u].created_at

\* ------------------------------------------------------------------ C5
SingleClaimer == Cardinality(claimers) <= 1

DistinctCreatedAt ==
    \A t, u \in Tasks :
       (t # u /\ tasks[t].status # "absent" /\ tasks[u].status # "absent")
          => tasks[t].created_at # tasks[u].created_at

\* C5: with a single claimer and pairwise different created_at, the rows are
\* returned oldest first: the log of returned rows is ordered by created_at, a
\* claim returns the one oldest pending row of its snapshot, and it returns no
\* row exactly when its snapshot holds no pending row.
C5_SingleClaimerFifo ==
    /\ []((SingleClaimer /\ DistinctCreatedAt) =>
            \A i, j \in 1 .. Len(claimLog) :
               i < j => tasks[claimLog[i]].created_at
                           < tasks[claimLog[j]].created_at)
    /\ [][\A p \in Procs :
            (SelectStep(p) /\ SingleClaimer /\ DistinctCreatedAt) =>
               IF snap[p] = {}
               THEN pc'[p] \in AfterDrain
               ELSE /\ pc'[p] = "claim_locked"
                    /\ cur'[p] \in snap[p]
                    /\ \A u \in snap[p] :
                          tasks[cur'[p]].created_at <= tasks[u].created_at]_vars

\* one claimer has been handed two tasks that were pending together, the older
\* first, and a further claim of it returned no row
C5_Witness ==
    \E p \in Procs :
       /\ claimers = {p} /\ Len(claimLog) = NTasks
       /\ pc[p] \in AfterDrain
       /\ \A i \in 1 .. Len(claimLog) - 1 :
             /\ tasks[claimLog[i]].created_at
                   < tasks[claimLog[i + 1]].created_at
             /\ tasks[claimLog[i + 1]].created_at
                   <= tasks[claimLog[i]].started_at

\* ------------------------------------------------------------------ C6
\* C6: among pending rows of equal created_at the claim statement takes the one
\* of least id: the row returned is a function of the rows it can take.
C6_TieBrokenById ==
    [][\A p \in Procs :
          (SelectStep(p) /\ pc'[p] = "claim_locked") =>
             \A u \in Oldest(Eligible(p)) : cur'[p] <= u]_vars


\* ------------------------------------------------------------ C7 .. C10
\* the statement of process p's _reclaim_stale_tasks is taken in this step
SweepStep(p) == pc[p] = "reclaim" /\ pc'[p] # "reclaim"

\* C7: after one sweep every task that was running with a heartbeat older than
\* the timeout is failed with the timeout error text and completed_at set, and
\* a task failed that way is never running again.
C7_SweepFailsStale ==
    [][/\ \A p \in Procs, t \in Tasks :
             (SweepStep(p) /\ StaleRow(tasks[t], now)) =>
                /\ tasks'[t].status = "failed"
                /\ tasks'[t].error = TimeoutError
                /\ tasks'[t].completed_at # NULL
       /\ \A t \in Tasks :
             tasks[t].error = TimeoutError => tasks'[t].status # "running"]_vars

\* C8: a sweep leaves every row that is not running with a heartbeat older than
\* the timeout exactly as it was: pending, terminal and freshly beating rows
\* keep all their fields.
C8_SweepFrame ==
    [][\A p \in Procs, t \in Tasks :
          (SweepStep(p) /\ ~StaleRow(tasks[t], now)) => tasks'[t] = tasks[t]]_vars

\* a sweep is about to run over a pending row and a running row whose heartbeat
\* is within the timeout
C8_Witness ==
    \E p \in Procs, t, u \in Tasks :
       /\ pc[p] = "reclaim"
       /\ tasks[t].status = "pending"
       /\ tasks[u].status = "running" /\ ~StaleRow(tasks[u], now)

\* C9: the staleness test and the write of the sweep are one step per row: a
\* row becomes failed with the timeout error text only in a step in whose
\* starting state its committed heartbeat_at is older than the timeout, so a
\* heartbeat committed before the sweep looked at the row is never overruled.
C9_SweepAtomic ==
    [][\A t \in Tasks :
          (tasks'[t].error = TimeoutError /\ tasks[t].error # TimeoutError) =>
             StaleRow(tasks[t], now)]_vars

\* a sweep of one process is about to run right after the heartbeat of a
\* handler of another process was committed
C9_Witness ==
    \E p, q \in Procs :
       /\ p # q
       /\ pc[p] = "reclaim"
       /\ pc[q] = "handler"
       /\ tasks[cur[q]].heartbeat_at = now
       /\ tasks[cur[q]].heartbeat_at > tasks[cur[q]].started_at

\* C10: while a handler is executing in a live process, its task stays running
\* and its heartbeat_at is never more than one heartbeat period old, which is
\* less than the stale timeout: no sweep of any process fails it, the first
\* period after the claim included.
C10_NoFalseReclaim ==
    \A p \in Procs :
       pc[p] = "handler" =>
          /\ tasks[cur[p]].status = "running"
          /\ now - tasks[cur[p]].heartbeat_at <= HEARTBEAT_SECONDS
          /\ HEARTBEAT_SECONDS < STALE_TASK_TIMEOUT_MINUTES * 60
          /\ ~StaleRow(tasks[cur[p]], now)

\* a sweep is about to run while a handler of another process is in its first
\* heartbeat period: heartbeat_at still equals the claim time and time has passed
C10_Witness ==
    \E p, q \in Procs :
       /\ p # q
       /\ pc[p] = "reclaim"
       /\ pc[q] = "handler"
       /\ tasks[cur[q]].heartbeat_at = tasks[cur[q]].started_at
       /\ now > tasks[cur[q]].started_at


\* ------------------------------------------------------------------ C11
\* the inner try / finally of process p is left in this step
ReturnStep(p) == pc[p] = "handler" /\ pc'[p] # "handler"

\* C11: a heartbeat write that raises does not end the updater and does not
\* abort the handler: as long as the handler executes the updater has a next
\* tick, and what the handler returns or raises is what is dispatched, so that
\* a result without error is written as completed.
C11_HeartbeatFailureTolerated ==
    /\ [](\A p \in Procs : pc[p] = "handler" => hb_next[p] # NULL)
    /\ [][\A p \in Procs :
            ReturnStep(p) =>
               /\ result'[p] \in HandlerResults
               /\ (~HasError(result'[p]) /\ result'[p].kind # "raise")
                     => pc'[p] = "write_ok"]_vars


C13_AbandonedReclaimed ==
    [][\A q \in Procs :
          pc[q] = "crashed" =>
             /\ (tasks[cur[q]].status = "running" /\ tasks'[cur[q]].status # "running")
                   => \E p \in Procs : SweepStep(p) /\ StaleRow(tasks[cur[q]], now)
             /\ \A p \in Procs :
                   (SweepStep(p) /\ StaleRow(tasks[cur[q]], now))
                      => tasks'[cur[q]].status = "failed"]_vars


\* ------------------------------------------------------------------ C14
\* C14: while the pollers run, the store answers and the handlers return, every
\* pending task is eventually claimed (it leaves pending), whether or not any
\* notification is ever delivered: the timeout of the wait is enough.
C14_PendingEventuallyClaimed ==
    \A t \in Tasks : (tasks[t].status = "pending") ~> (tasks[t].status # "pending")

\* every listener is lost, no notify_event is set, and a poller has claimed a
\* task all the same
C14_Witness ==
    /\ \A p \in Procs : listener[p] = "lost" /\ ~notified[p]
    /\ \E p \in Procs : pc[p] = "handler" /\ tasks[cur[p]].status = "running"


\* ------------------------------------------------------------------ C15
\* the claim statement of process p raises a store error in this step
ClaimErrorStep(p) ==
    pc[p] \in {"claim_scan", "claim_locked"} /\ faults' = faults + 1

\* C15: a store error raised by the claim statement changes no row and does not
\* stop the scheduler: the poller goes back to waiting for the notification or
\* the timeout, after which it claims again.
C15_ClaimErrorSurvived ==
    [][\A p \in Procs :
          ClaimErrorStep(p) => (tasks' = tasks /\ pc'[p] = "wait")]_vars


\* ------------------------------------------------------------------ C16
\* C16: a poller whose listener is lost eventually listens again, and until then
\* the pending tasks are still claimed on the timeout of the wait.
C16_ListenerRecovers ==
    /\ \A p \in Procs : (listener[p] = "lost") ~> (listener[p] = "listening")
    /\ \A t \in Tasks :
          (tasks[t].status = "pending" /\ \A p \in Procs : listener[p] = "lost")
             ~> (tasks[t].status # "pending")


\* ------------------------------------------------------------------ C17
\* the claim statement of process p commits in this step
CommitStep(p) == pc[p] = "claim_locked" /\ pc'[p] # "claim_locked"

\* the write of process p at position w returns in this step without store error
WriteDoneStep(p, w) == pc[p] = w /\ pc'[p] # w /\ faults' = faults

\* C17: a claimed task whose workflow is not registered goes straight to the
\* failure write: no handler result exists for it and no heartbeat updater is
\* started; when the store takes the write, the task is failed with an error
\* text that names the workflow, and the poller goes on draining.
C17_UnknownWorkflowFails ==
    /\ [](\A p \in Procs :
            pc[p] = "write_unknown" =>
               /\ tasks[cur[p]].workflow \notin WORKFLOW_HANDLERS
               /\ result[p] = NoResult
               /\ hb_next[p] = NULL)
    /\ [][\A p \in Procs :
            /\ (CommitStep(p) /\ tasks[cur[p]].workflow \notin WORKFLOW_HANDLERS)
                  => pc'[p] = "write_unknown"
            /\ WriteDoneStep(p, "write_unknown") =>
                  /\ tasks'[cur[p]].status = "failed"
                  /\ tasks'[cur[p]].error
                        = "Unknown workflow: " \o tasks[cur[p]].workflow
                  /\ tasks'[cur[p]].completed_at = now
                  /\ pc'[p] = "drain"]_vars

\* a task with an unknown workflow has been failed and the poller is claiming
\* the next pending task in the same drain
C17_Witness ==
    \E p \in Procs, t, u \in Tasks :
       /\ tasks[t].status = "failed"
       /\ tasks[t].error = "Unknown workflow: unknown_flow"
       /\ pc[p] = "claim_locked" /\ cur[p] = u /\ u # t
       /\ tasks[u].created_at <= tasks[t].started_at


\* ------------------------------------------------------------------ C18
\* C18: an exception of the handler is caught: it is dispatched to the failure
\* write of the except clause and does not end the poller; when the store takes
\* the write, the task is failed with the exception's type name and message and
\* at most TRACE_LIMIT characters of traceback, and the poller goes on draining.
C18_HandlerExceptionCaught ==
    [][\A p \in Procs :
          /\ (ReturnStep(p) /\ result'[p].kind = "raise") => pc'[p] = "write_exc"
          /\ WriteDoneStep(p, "write_exc") =>
                /\ tasks'[cur[p]].status = "failed"
                /\ tasks'[cur[p]].completed_at = now
                /\ tasks'[cur[p]].error
                      = result[p].name \o ": " \o result[p].text \o "\n"
                           \o Traceback(IF result[p].trace <= TRACE_LIMIT
                                        THEN result[p].trace ELSE TRACE_LIMIT)
                /\ pc'[p] = "drain"]_vars

\* a handler raised with a traceback longer than the limit, its task is failed
\* with the cut diagnostic, and the poller is claiming the next task
C18_Witness ==
    \E p \in Procs, t, u \in Tasks :
       /\ tasks[t].status = "failed"
       /\ tasks[t].error = "RuntimeError: boom\n" \o Traceback(TRACE_LIMIT)
       /\ pc[p] = "claim_locked" /\ cur[p] = u /\ u # t


\* ------------------------------------------------------------------ C19
\* the result has an error field, whatever its value
HasErrorField(r) == Get(r, "error").some

\* C19: a result with an error field is handled as a failure whatever the value
\* of the field: it is dispatched to a failure write, never to the completion
\* write, and no write made for it leaves the task completed.
C19_ErrorFieldFails ==
    [][\A p \in Procs :
          /\ (ReturnStep(p) /\ HasErrorField(result'[p]))
                => pc'[p] \in {"write_err", "write_exc"}
          /\ (pc[p] = "write_ok" /\ pc'[p] # "write_ok" /\ HasErrorField(result[p]))
                => tasks'[cur[p]].status # "completed"]_vars


RECURSIVE DelayAfter(_)
DelayAfter(n) ==
    IF n = 0 THEN BRIDGE_RECONNECT_BASE
    ELSE IF DelayAfter(n - 1) * 2 > BRIDGE_RECONNECT_MAX THEN BRIDGE_RECONNECT_MAX
    ELSE DelayAfter(n - 1) * 2

\* C21: the bridge's reconnect delay starts at 1 second, doubles after each
\* consecutive failed subscription attempt (1, 2, 4, ...), never exceeds 60
\* seconds, and is back at 1 second after a successful subscription; in every
\* reachable state 1 <= backoff <= 60.
C21_BackoffBounded ==
    /\ BRIDGE_RECONNECT_BASE <= backoff /\ backoff <= BRIDGE_RECONNECT_MAX
    /\ bridge \in {"release", "sleep"} /\ streak < MaxStreak
          => backoff = DelayAfter(streak - 1)
    /\ bridge = "acquire" /\ streak < MaxStreak => backoff = DelayAfter(streak)
    /\ bridge = "subscribed" => backoff = BRIDGE_RECONNECT_BASE

\* the bridge sleeps for the capped delay although doubling once more would
\* pass the cap
C21_Witness ==
    /\ bridge = "sleep"
    /\ backoff = BRIDGE_RECONNECT_MAX
    /\ streak = 7

\* ------------------------------------------------------------------ C22
\* C22: on any error of the bridge's subscription, the death of the carrier
\* connection while it listens included, the bridge goes on to release the
\* connection, wait the backoff and subscribe again on a fresh connection: it
\* is never left subscribed to a dead connection with no step to take.
C22_DeadCarrierLeft ==
    /\ bridge \in {"release", "sleep", "acquire"} => ENABLED BridgeStep
    /\ (bridge = "subscribed" /\ conn = "dead") => ENABLED BridgeStep

\* ------------------------------------------------------------------ C23
\* C23: without a relay API key the bridge returns at startup: it never holds
\* a connection, never has a listener called and never sends a publish; the
\* task poller of the process starts and drains all the same.
C23_NoKeyNoBridge ==
    ~api_key =>
       /\ bridge \in {"start", "returned"}
       /\ conn = "none"
       /\ notifs = 0
       /\ pending = {}
       /\ \A n \in 1 .. MaxNotifs : attempts[n] = <<>>
       /\ ENABLED PollerStep(Engine)

\* no key is set, the bridge has returned, and the poller has claimed a task
\* and written its result
C23_Witness ==
    /\ ~api_key
    /\ bridge = "returned"
    /\ pc[Engine] = "drain"
    /\ \E t \in Tasks : tasks[t].status = "completed"

\* ------------------------------------------------------------------ C24
\* a POST is sent to the relay for notification n
PublishStep(n) == attempts'[n] # attempts[n]

\* C24: every notification gives rise to at most one publish attempt; a
\* publish that gets a non-200 answer or raises is not tried again (its task
\* is over), does not end or restart the subscription loop, does not change
\* the backoff, and changes no task row.
C24_PublishOnce ==
    /\ [](\A n \in 1 .. MaxNotifs : Len(attempts[n]) <= 1)
    /\ [][\A n \in 1 .. MaxNotifs :
            PublishStep(n) =>
               /\ n \notin pending'
               /\ bridge' = bridge /\ conn' = conn
               /\ backoff' = backoff /\ streak' = streak
               /\ tasks' = tasks]_vars

\* a publish has failed, its task is over, and the bridge is still subscribed
\* on its live connection while the store holds a running task
C24_Witness ==
    \E n \in 1 .. MaxNotifs :
       /\ attempts[n] \in {<<"503">>, <<"exception">>}
       /\ n \notin pending
       /\ bridge = "subscribed" /\ conn = "live"
       /\ \E t \in Tasks : tasks[t].status = "running"

\* ------------------------------------------------------------------ C25
\* the last call handed rows of the table to its caller
ReturnedRows == IF ret.kind \in {"row", "rows"} THEN ret.ids ELSE {}

\* C25: no credential is readable or mutable across owners: a call made for
\* one owner (update, get-decrypted, list, delete) is never handed a row, or a
\* decrypted configuration, of a credential of another owner, and never
\* changes or removes such a row.
C25_OwnerIsolation ==
    /\ [](\A c \in ReturnedRows :
            credentials[c].present => credentials[c].owner_id = ret.caller)
    /\ [][\A c \in Creds :
            (credentials[c].present /\ credentials'[c] # credentials[c])
               => credentials[c].owner_id = ret'.caller]_vars

\* ------------------------------------------------------------------ C26
\* the keys a vault instance is built with
FernetKeys == {Strip(k) : k \in VaultKeys} \ {""}

\* the last call was get_credential_decrypted of an existing credential, with
\* a vault key set
Decrypted(c) ==
    /\ ret.op = "get_credential_decrypted"
    /\ ret.cid = c
    /\ credentials[c].present
    /\ fernet # "none"

DecryptFails(c) ==
    /\ credentials[c].present
    /\ fernet = "none" \/ credentials[c].config_encrypted.key # fernet

\* C27: a failure to decrypt a stored configuration is reported to the
\* caller: whoever asked for a credential whose decryption failed gets an
\* exception, never a credential value, an empty or a default one.
C27_DecryptFailurePropagated ==
    (/\ ret.op \in {"get_credential_decrypted", "get_llm_config"}
     /\ ret.cid # NoCred
     /\ DecryptFails(ret.cid))
       => ret.kind = "raise"

\* ------------------------------------------------------------------ C28
\* what an update of credential c for owner o has to leave behind
UpdateFrame(c, o, name, service, hasCfg, cfg, active) ==
    /\ \A d \in Creds :
          (d # c \/ ~OwnedRow(c, o)) => credentials'[d] = credentials[d]
    /\ credentials'[c].present = credentials[c].present
    /\ credentials'[c].owner_id = credentials[c].owner_id
    /\ name = "unset" => credentials'[c].name = credentials[c].name
    /\ service = "unset" => credentials'[c].service = credentials[c].service
    /\ active = "unset" => credentials'[c].is_active = credentials[c].is_active
    /\ ~hasCfg => /\ credentials'[c].config_encrypted = credentials[c].config_encrypted
                  /\ fernet' = fernet
    /\ (hasCfg /\ OwnedRow(c, o) /\ ret'.kind = "row")
          => /\ credentials'[c].config_encrypted = Encrypt(fernet', cfg)
             /\ Decrypt(fernet', credentials'[c].config_encrypted).config = cfg
    /\ (name = "unset" /\ service = "unset" /\ ~hasCfg /\ active = "unset")
          => credentials' = credentials /\ ret'.kind = "empty"

\* C28: an update re-encrypts the configuration only when a new one is
\* supplied; an update of name, service or is_active alone leaves
\* config_encrypted as it was; an update with no field writes nothing; and
\* no update touches a credential other than the one (id, owner_id) names.
C28_UpdateFrame ==
    [][(calls' # calls /\ ret'.op = "update_credential") =>
          \A u \in UpdateRequests, cfg \in Configs :
             UpdateCredential(ret'.cid, ret'.caller, u.name, u.service, u.hasCfg, cfg,
                              u.active)
                => UpdateFrame(ret'.cid, ret'.caller, u.name, u.service, u.hasCfg,
                               cfg, u.active)]_vars

\* a credential has been renamed by its owner while another owner's
\* credential is in the table: its configuration is still the one encrypted
\* at creation
C28_Witness ==
    \E c, d \in Creds :
       /\ ret.op = "update_credential" /\ ret.kind = "row" /\ ret.cid = c
       /\ credentials[c].name = "renamed"
       /\ credentials[c].service = "http"
       /\ credentials[c].config_encrypted = Encrypt(fernet, CfgHttp)
       /\ credentials[d].present
       /\ credentials[d].owner_id # credentials[c].owner_id

\* ------------------------------------------------------------------ C29
\* ROKA_VAULT_KEY is unset or blank
KeyAbsent == Strip(vault_key) = ""

\* the call ended with the configuration error
RaisedKeyError(r) ==
    r.kind = "raise" /\ r.name = "RuntimeError" /\ r.text = KeyError

\* C29: while the master key is absent (empty, or white space only), encrypt
\* and decrypt have no instance to work with, and create, update with a
\* configuration and get-decrypted raise the configuration error; create and
\* update do so before any store write.
C29_KeyAbsentRaises ==
    /\ [](KeyAbsent => fernet = "none" /\ GetFernet = "none")
    /\ [][(KeyAbsent /\ calls' # calls) =>
            /\ ret'.op = "create_credential"
                  => RaisedKeyError(ret') /\ credentials' = credentials
            /\ (/\ ret'.op = "update_credential"
                /\ \E u \in UpdateRequests, cfg \in Configs :
                      /\ u.hasCfg
                      /\ UpdateCredential(ret'.cid, ret'.caller, u.name, u.service,
                                          TRUE, cfg, u.active))
                  => RaisedKeyError(ret') /\ credentials' = credentials
            /\ (/\ ret'.op = "get_credential_decrypted"
                /\ credentials[ret'.cid].present)
                  => RaisedKeyError(ret')]_vars

\* the process runs with a blank key over a table that holds a credential,
\* and an update that supplied a configuration has raised
C29_Witness ==
    /\ vault_key = "  "
    /\ ret.op = "update_credential"
    /\ RaisedKeyError(ret)
    /\ OwnedRow(ret.cid, ret.caller)

\* ------------------------------------------------------------------ C30
\* the bridge task and the poller task have ended
BackgroundTasksOver ==
    /\ bridge \in {"cancelled", "returned"}
    /\ pc[Engine] = "cancelled"
    /\ listener[Engine] = "cancelled"
    /\ hb_next[Engine] = NULL

\* C30: shutdown cancels the bridge's subscription loop, the poller's drain
\* loop with its listener and a heartbeat updater in flight: once the
\* cancellation has reached the poller, the poller, its listener and its
\* heartbeat updater are over, and shutdown goes through to the end; the pool
\* is closed only after both background tasks have ended; and after shutdown
\* the process writes no task row and sends no publish.
C30_ShutdownStops ==
    /\ [](lifespan # "serving" => bridge \in {"cancelled", "returned"})
    /\ [](cancel_thrown => BackgroundTasksOver)
    /\ [](lifespan # "raised")
    /\ [](~pool_open => BackgroundTasksOver)
    /\ [][lifespan = "closed" =>
            /\ \A t \in Tasks : tasks'[t] # tasks[t] => tasks[t].status = "absent"
            /\ attempts' = attempts]_vars

\* ------------------------------------------------------------------ C31
\* the error texts the engine writes: unknown workflow, error result, handler
\* exception, stale reclaim
FailureTexts ==
    {UnknownError(w) : w \in WorkflowNames}
    \cup {r.text : r \in {h \in HandlerResults : HasError(h)}}
    \cup {ExceptionError(e) : e \in {h \in HandlerResults \cup {StoreError} : h.kind = "raise"}}
    \cup {TimeoutError}

\* C31: in every reachable state a running task has started_at and
\* heartbeat_at set; a completed or failed task has completed_at set; a
\* failed task has a non-empty error text, which is the text of its failure
\* (unknown workflow, error result, handler exception, stale reclaim); a
\* completed task has an output.
C31_RowShape ==
    \A t \in Tasks :
       /\ tasks[t].status = "running"
             => tasks[t].started_at # NULL /\ tasks[t].heartbeat_at # NULL
       /\ tasks[t].status \in {"completed", "failed"}
             => tasks[t].completed_at # NULL /\ tasks[t].started_at # NULL
       /\ tasks[t].status = "failed"
             => /\ tasks[t].error \notin {"null", ""}
                /\ tasks[t].error \in FailureTexts
       /\ tasks[t].status = "completed" => tasks[t].output # "null"

\* one task has failed with the text of its handler's exception and the other
\* has completed with the output of a handler that returned None
C31_Witness ==
    \E t, u \in Tasks :
       /\ tasks[t].status = "failed"
       /\ tasks[t].error = ExceptionError(Raised("RuntimeError", "boom", 2001))
       /\ tasks[u].status = "completed"
       /\ tasks[u].output = "{}"

\* ------------------------------------------------------------------ C32
\* the poller of process p is idle: in wait_for, or in the sweep that comes
\* before it on a twelfth cycle
Idle(p) == pc[p] \in {"wait", "reclaim"}

\* C32: once woken the scheduler claims and dispatches until a claim returns
\* no row, and only then waits again: it becomes idle only out of a claim
\* that found every pending row of its snapshot locked by another claim or
\* no longer pending, after a task it goes straight to the next claim, and
\* whenever it waits its wait can end (the timer and the wake signal are
\* armed).
C32_DrainUntilNone ==
    /\ [](\A p \in Procs : pc[p] = "wait" => ENABLED Wake(p))
    /\ [][\A p \in Procs :
            /\ (~Idle(p) /\ Idle(p)') =>
                  /\ pc[p] = "claim_scan"
                  /\ \A t \in snap[p] : PendingNow(t) => Locked(t)
            /\ (pc'[p] = "wait" /\ pc[p] # "wait") => pc[p] \in {"claim_scan", "reclaim"}
            /\ (TerminalWriteStep(p) /\ faults' = faults) => pc'[p] = "drain"
            /\ (pc[p] = "drain" /\ pc'[p] # "drain") => pc'[p] = "claim_scan"]_vars

\* a process that drained alone has claimed both tasks, one after the other,
\* and waits again
C32_Witness ==
    \E p \in Procs :
       /\ pc[p] = "wait"
       /\ claimers = {p}
       /\ Len(claimLog) = NTasks
       /\ \A t \in Tasks : Terminal(tasks[t].status)

\* ------------------------------------------------------------------ C33
\* process p goes on to _reclaim_stale_tasks in this step
SweepCalled(p) == pc'[p] = "reclaim" /\ pc[p] # "reclaim"

\* C33: the scheduler calls the sweep on the 12th, 24th, ... drain cycle it
\* ends since its start, whatever woke it, once, and on no other cycle; while
\* it waits, its cycle counter is in 0..11 (the number of cycles ended since
\* the last sweep).
C33_SweepEveryTwelfth ==
    /\ [](\A p \in Procs :
            pc[p] \in {"wait", "reclaim"} =>
               /\ stale_check_counter[p] \in 0 .. STALE_CHECK_CYCLES - 1
               /\ stale_check_counter[p] = cycles[p] % STALE_CHECK_CYCLES)
    /\ [][\A p \in Procs :
            /\ SweepCalled(p) <=>
                  /\ cycles'[p] = cycles[p] + 1
                  /\ cycles'[p] % STALE_CHECK_CYCLES = 0
            /\ (pc[p] = "reclaim" /\ pc'[p] # "reclaim") => pc'[p] = "wait"]_vars

\* the sweep is about to run for the second time, at the end of cycle 24,
\* and the poller has handled a task on the way
C33_Witness ==
    /\ pc[Engine] = "reclaim"
    /\ cycles[Engine] = 2 * STALE_CHECK_CYCLES
    /\ \E t \in Tasks : Terminal(tasks[t].status)


\* ------------------------------------------------------------------ C34
\* heartbeat_loop of process p writes in this step
HeartbeatStep(p) ==
    /\ pc[p] = "handler"
    /\ pc'[p] = "handler"
    /\ hb_next[p] # NULL
    /\ hb_next'[p] # hb_next[p]

InFlight(p) ==
    pc[p] \in {"handler", "write_unknown", "write_ok", "write_err", "write_exc"}

\* the process is between two calls of _claim_and_run_one or before the first
BetweenTasks(p) == pc[p] \in {"wait", "drain", "claim_scan", "reclaim"}

RunningRows == {t \in Tasks : tasks[t].status = "running"}

\* C35: a process has one task at a time: the row of the handler it executes is
\* running, between two tasks it holds no row, no result and no heartbeat
\* updater, and there are never more running rows than processes that have a
\* task in flight or ended with one; the sweep of a process runs between two of
\* its tasks, so every row that is running then is a row of another process.
C35_SequentialDrain ==
    /\ [](\A p \in Procs :
             /\ pc[p] = "handler" => tasks[cur[p]].status = "running"
             /\ BetweenTasks(p) =>
                   /\ cur[p] = NoTask
                   /\ result[p] = NoResult
                   /\ hb_next[p] = NULL)
    /\ [](Cardinality(RunningRows)
             <= Cardinality({p \in Procs : InFlight(p) \/ pc[p] \in {"crashed", "dead"}}))
    /\ [][\A p \in Procs :
            SweepStep(p) =>
               /\ BetweenTasks(p)
               /\ Cardinality(RunningRows)
                     <= Cardinality({q \in Procs \ {p} :
                                        InFlight(q) \/ pc[q] \in {"crashed", "dead"}})]_vars

\* one process is about to run its sweep while the other executes a handler
C35_Witness ==
    \E p, q \in Procs :
       /\ pc[p] = "reclaim"
       /\ pc[q] = "handler"
       /\ \E t \in Tasks : Terminal(tasks[t].status)

\* ------------------------------------------------------------------ C36
\* C36: a notification is not lost: the event of a process is cleared only by
\* the step that ends its wait and starts a drain, and whenever a process waits
\* while a task whose notification it has received is still pending and not
\* being claimed by another process, its event is set, so the wait can return
\* on the event at once.
C36_NoLostWakeup ==
    /\ [](\A p \in Procs, t \in Tasks :
             (/\ pc[p] = "wait"
              /\ t \in heard[p]
              /\ tasks[t].status = "pending"
              /\ ~Locked(t))
                => (notified[p] /\ ENABLED WakeOnNotify(p)))
    /\ [][\A p \in Procs :
            (notified[p] /\ ~notified'[p]) => (pc[p] = "wait" /\ pc'[p] = "drain")]_vars

\* a notification reached a process after its wait had ended and its event was
\* cleared: the drain is over, the task was not claimed in it, and the event is
\* set for the wait that comes next
C36_Witness ==
    \E p \in Procs, t \in Tasks :
       /\ pc[p] = "reclaim"
       /\ t \in heard[p]
       /\ tasks[t].status = "pending"
       /\ ~Locked(t)
       /\ notified[p]

\* ------------------------------------------------------------------ C37
\* the cancellation reaches the poller of process p while it awaits a handler
CancelInHandler(p) == pc[p] = "handler" /\ ~cancel_thrown /\ cancel_thrown'

\* C37: a cancellation that reaches the poller while a handler executes stops
\* the heartbeat updater and ends the poller with no write: the row stays
\* running with the heartbeat_at it had, and from then on the row changes only
\* in a step in which a process runs its sweep.
C37_CancelledHandlerLeftRunning ==
    /\ [][\A p \in Procs :
            CancelInHandler(p) =>
               /\ hb_next'[p] = NULL
               /\ pc'[p] = "cancelled"
               /\ tasks' = tasks
               /\ tasks[cur[p]].status = "running"]_vars
    /\ [][\A p \in Procs :
            (pc[p] = "cancelled" /\ cur[p] # NoTask) =>
               \/ tasks'[cur[p]] = tasks[cur[p]]
               \/ \E q \in Procs : SweepStep(q)]_vars

\* ------------------------------------------------------------------ C38
\* C38: the store error of the sweep statement is contained: the step in which
\* _reclaim_stale_tasks runs changes no row and leaves the poller waiting, with
\* a cycle counter that was reset before the call, so that the sweep is called
\* again only at the twelfth drain after it; a waiting poller can always start
\* its next drain.
C38_SweepErrorContained ==
    /\ [][\A p \in Procs :
            /\ SweepStep(p) =>
                  /\ tasks' = tasks
                  /\ pc'[p] = "wait"
                  /\ stale_check_counter[p] = 0
                  /\ stale_check_counter'[p] = 0
            /\ SweepCalled(p) =>
                  /\ stale_check_counter[p] = STALE_CHECK_CYCLES - 1
                  /\ stale_check_counter'[p] = 0]_vars
    /\ [](\A p \in Procs : pc[p] = "wait" => ENABLED Wake(p))

\* the sweep has failed once, at the end of cycle 12, and the poller has
\* claimed a task in a drain after it
C38_Witness ==
    /\ cycles[Engine] > STALE_CHECK_CYCLES
    /\ cycles[Engine] < 2 * STALE_CHECK_CYCLES
    /\ pc[Engine] = "handler"
    /\ tasks[cur[Engine]].started_at = now
    /\ \A t \in Tasks \ {cur[Engine]} : tasks[t].status = "absent"

\* ------------------------------------------------------------------ C39
\* C39: the bridge holds a connection only between a subscription attempt and
\* the end of the finally clause after it: it holds none while it sleeps for
\* the backoff, when it acquires, and once it has been cancelled or has
\* returned.
C39_OneConnectionReleased ==
    bridge \in {"start", "acquire", "sleep", "cancelled", "returned"} => conn = "none"

\* ------------------------------------------------------------------ C40
\* the call returns in this step without having read the store
ReturnsCached(c) ==
    /\ llm_call[c].pc \in {"idle", "lock_wait"}
    /\ llm_call'[c].pc = "returned"

\* C40: at most one get_llm_config call reads the store at a time, a call that
\* finds the cache fresh returns what the cache holds, and a call that starts
\* after an invalidate_cache() has returned gives back a configuration that
\* was read from the store after that invalidation.
C40_CacheCoherent ==
    /\ [](Cardinality({c \in Calls : llm_call[c].pc \in {"reading", "resume"}}) <= 1)
    /\ [][\A c \in Calls :
            ReturnsCached(c) =>
               /\ cache # NoConfig
               /\ llm_call'[c].ret = cache
               /\ cache' = cache]_vars
    /\ [](\A c \in Calls :
             llm_call[c].pc = "returned" => llm_call[c].ret.epoch >= llm_call[c].since)

=============================================================================
